---------------------------- MODULE Spec2Model ----------------------------
(***************************************************************************)
(* Impact-score scoring model of the impact-score-calculator repository.   *)
(*                                                                         *)
(* Units.  The six components are integers.  A multiplier m (a Python      *)
(* float in the source) is carried as the integer 1000*m ("permille"), so  *)
(* 0.15 is 150 and 0.034 is 34.  A product base*(1+s+a) is carried as the  *)
(* integer base*(1000+s+a), i.e. in thousandths of a point.  A score that  *)
(* went through round(x, 1) is carried in tenths of a point, so 90.0 is    *)
(* 900 and 161.2 is 1612.                                                  *)
(*                                                                         *)
(* Floating point.  The source computes base*(1+s+a) in IEEE doubles.  The *)
(* double differs from the exact rational product by a rounding error far  *)
(* below a thousandth, so it only matters where the exact product sits on  *)
(* a rounding tie (x.x5) or on a classification threshold.  The sign of    *)
(* that error is an input fp \in {-1, 0, 1} of every scoring step (0 when  *)
(* both multipliers are 0, where the arithmetic is exact).                 *)
(***************************************************************************)
EXTENDS Integers, Sequences, FiniteSets, TLC

VARIABLES
    components,     \* the ImpactScoreComponents object / components dict handed to a scoring entry point
    outcome,        \* what the last call did: raised, or the values it returned
    classified,     \* the last two classifications made: <<previous, latest>>
    tables,         \* the class-level keyword and mapping tables of IntelligentImpactEstimator
    excel_path,     \* IntelligentImpactEstimator.excel_path, as the sheet found at that path
    ticket_df,      \* IntelligentImpactEstimator.df: None, or the rows of the loaded sheet
    ticket_data,    \* IntelligentImpactEstimator.ticket_data: field name -> value
    label_args,     \* the arguments of the extract_labels call
    workbook,       \* the Excel file at JiraImpactScoreProcessor.excel_path
    df,             \* JiraImpactScoreProcessor.df: None, or the loaded sheet
    processed_df    \* JiraImpactScoreProcessor.processed_df: None, or the scored sheet

vars == <<components, outcome, classified, tables, excel_path, ticket_df, ticket_data,
         label_args, workbook, df, processed_df>>

estimatorVars == <<tables, excel_path, ticket_df, ticket_data>>
labelVars == <<label_args>>
processorVars == <<workbook, df, processed_df>>

---------------------------------------------------------------------------
(* Python values.  An Optional[str] is None (the empty tuple) or a one-    *)
(* element tuple holding the string; a dict is a function on its keys.     *)

None == <<>>
Some(text) == <<text>>
EmptyDict == [k \in {} |-> None]

\* dict.get(key), None when the key is missing.
Get(dict, key) == IF key \in DOMAIN dict THEN dict[key] ELSE None

\* (value or ''): None and '' both give ''.
OrEmpty(value) == IF value = None THEN "" ELSE value[1]

\* kw in text (substring test).
Contains(text, kw) ==
    \E i \in 1..(Len(text) - Len(kw) + 1) : SubSeq(text, i, i + Len(kw) - 1) = kw

\* any(kw in text for kw in kws), kws a sequence.
ContainsAny(text, kws) == \E k \in 1..Len(kws) : Contains(text, kws[k])

\* The first element of the sequence kws that occurs in text; 0 if none.
FirstContained(text, kws) ==
    IF ContainsAny(text, kws)
        THEN CHOOSE k \in 1..Len(kws) :
                 /\ Contains(text, kws[k])
                 /\ \A j \in 1..(k - 1) : ~Contains(text, kws[j])
        ELSE 0

UpperCase == <<"A", "B", "C", "D", "E", "F", "G", "H", "I", "J", "K", "L", "M",
               "N", "O", "P", "Q", "R", "S", "T", "U", "V", "W", "X", "Y", "Z">>
LowerCase == <<"a", "b", "c", "d", "e", "f", "g", "h", "i", "j", "k", "l", "m",
               "n", "o", "p", "q", "r", "s", "t", "u", "v", "w", "x", "y", "z">>

UpperToLower ==
    [ch \in {UpperCase[k] : k \in 1..26} |->
        LowerCase[CHOOSE k \in 1..26 : UpperCase[k] = ch]]

LowerChar(ch) == IF ch \in DOMAIN UpperToLower THEN UpperToLower[ch] ELSE ch

\* str.lower()
RECURSIVE Lower(_)
Lower(text) ==
    IF text = "" THEN ""
    ELSE IF Len(text) = 1 THEN LowerChar(text)
    ELSE Lower(SubSeq(text, 1, Len(text) \div 2))
           \o Lower(SubSeq(text, Len(text) \div 2 + 1, Len(text)))

IsDigit(ch) == ch \in {"0", "1", "2", "3", "4", "5", "6", "7", "8", "9"}
IsSpace(ch) == ch \in {" ", "\t", "\n", "\r"}
\* text[i] as a one-character string; '' past the end (an empty slice).
CharAt(text, i) == IF i <= Len(text) THEN SubSeq(text, i, i) ELSE ""

\* str.strip()
RECURSIVE Strip(_)
Strip(text) ==
    IF text = "" THEN ""
    ELSE IF IsSpace(CharAt(text, 1)) THEN Strip(SubSeq(text, 2, Len(text)))
    ELSE IF IsSpace(CharAt(text, Len(text))) THEN Strip(SubSeq(text, 1, Len(text) - 1))
    ELSE text

\* The first position >= i of text that holds no whitespace (Len+1 if none).
RECURSIVE SkipSpace(_, _)
SkipSpace(text, i) ==
    IF i <= Len(text) /\ IsSpace(CharAt(text, i)) THEN SkipSpace(text, i + 1) ELSE i

\* text has word at position i.
HasAt(text, i, word) ==
    i + Len(word) - 1 <= Len(text) /\ SubSeq(text, i, i + Len(word) - 1) = word

\* int() of a string of decimal digits.
DigitValue(ch) ==
    CASE ch = "0" -> 0 [] ch = "1" -> 1 [] ch = "2" -> 2 [] ch = "3" -> 3
      [] ch = "4" -> 4 [] ch = "5" -> 5 [] ch = "6" -> 6 [] ch = "7" -> 7
      [] ch = "8" -> 8 [] ch = "9" -> 9

RECURSIVE ParseInt(_)
ParseInt(digits) ==
    IF digits = "" THEN 0
    ELSE 10 * ParseInt(SubSeq(digits, 1, Len(digits) - 1))
           + DigitValue(CharAt(digits, Len(digits)))

\* ' '.join(list)
RECURSIVE JoinSpace(_)
JoinSpace(list) ==
    IF list = <<>> THEN ""
    ELSE IF Len(list) = 1 THEN list[1]
    ELSE list[1] \o " " \o JoinSpace(Tail(list))

---------------------------------------------------------------------------
(* Class-level tables of IntelligentImpactEstimator, in source order.      *)

PRIORITY_TO_SEVERITY ==
    <<<<"blocker", 38>>, <<"critical", 38>>, <<"highest", 38>>, <<"high", 30>>,
      <<"medium", 22>>, <<"low", 16>>, <<"lowest", 8>>, <<"trivial", 8>>>>

SEVERITY_MAPPINGS ==
    <<<<"1 - critical", 38>>, <<"1 - high", 38>>, <<"sev 1", 38>>, <<"p1", 38>>,
      <<"2 - high", 30>>, <<"2 - medium", 30>>, <<"sev 2", 30>>, <<"p2", 30>>,
      <<"3 - medium", 22>>, <<"3 - low", 22>>, <<"sev 3", 22>>, <<"p3", 22>>,
      <<"4 - low", 16>>, <<"p4", 16>>, <<"5 - trivial", 8>>, <<"p5", 8>>>>

VIP_CUSTOMERS ==
    <<"monday.com", "monday", "salesforce", "twilio", "stripe",
      "shopify", "zoom", "slack", "datadog", "hashicorp">>

WORKAROUND_KEYWORDS ==
    [simple |-> <<"workaround", "can use", "alternative", "use instead", "run command">>,
     complex |-> <<"manual", "multiple steps", "requires", "need to">>,
     with_impact |->
        <<"performance", "slower", "degraded", "limited",
          "inconvenient", "operational overhead", "manual intervention",
          "hard-coded", "hardcoded", "manual update", "manually update",
          "reduced capability", "reduced effectiveness", "not as designed",
          "operational impact", "requires updating", "human error",
          "reduced confidence", "less effective", "workaround impact">>,
     none |-> <<"no workaround", "cannot", "impossible", "requires fix", "needs patch">>]

SLA_KEYWORDS == <<"sla breach", "sla violated", "exceeded sla", "manual recovery", "downtime">>

FREQUENCY_KEYWORDS ==
    [multiple |-> <<"multiple", "several", "recurring", "repeated", "again", "reoccur">>,
     single |-> <<"first time", "one time", "single", "once">>]

RCA_KEYWORDS == <<"rca", "root cause", "action item", "post mortem", "postmortem">>

ClassTables ==
    [PRIORITY_TO_SEVERITY |-> PRIORITY_TO_SEVERITY,
     SEVERITY_MAPPINGS |-> SEVERITY_MAPPINGS,
     VIP_CUSTOMERS |-> VIP_CUSTOMERS,
     WORKAROUND_KEYWORDS |-> WORKAROUND_KEYWORDS,
     SLA_KEYWORDS |-> SLA_KEYWORDS,
     FREQUENCY_KEYWORDS |-> FREQUENCY_KEYWORDS,
     RCA_KEYWORDS |-> RCA_KEYWORDS]

\* IntelligentImpactEstimator.__init__: df = None, ticket_data = {}.
NoDf == [loaded |-> FALSE]

\* A path at which no readable workbook is found.
Unreadable == [readable |-> FALSE]

EstimatorConstructed ==
    /\ tables = ClassTables
    /\ excel_path = Unreadable
    /\ ticket_df = NoDf
    /\ ticket_data = EmptyDict

\* No extract_labels call is under way.
NoLabelCall == label_args = [called |-> FALSE]

\* JiraImpactScoreProcessor.__init__: df = None, processed_df = None.
ProcessorConstructed ==
    /\ workbook = Unreadable
    /\ df = NoDf
    /\ processed_df = NoDf

---------------------------------------------------------------------------
(* Input domains of the scoring entry points.                              *)

SeverityInputs == {-1, 0, 8, 16, 22, 30, 38, 39}
ArrInputs == {0, 15, 16}
SlaInputs == {0, 4, 8}
FrequencyInputs == {0, 16, 17}
WorkaroundInputs == {-1, 10, 15}
RcaInputs == {0, 8, 9}
MultiplierInputs == {-1, 0, 34, 150, 160}

ComponentInputs ==
    [impact_severity : SeverityInputs, customer_arr : ArrInputs,
     sla_breach : SlaInputs, frequency : FrequencyInputs,
     workaround : WorkaroundInputs, rca_action_item : RcaInputs,
     support_multiplier : MultiplierInputs, account_multiplier : MultiplierInputs]

---------------------------------------------------------------------------
(* ImpactScoreCalculator (src/src/impact_score_calculator.py)              *)

\* Variant of _validate_components without the sla_breach membership check.
_validate_components_no_sla(c) ==
    IF ~(0 <= c.impact_severity /\ c.impact_severity <= 38)
        THEN "Impact & Severity must be 0-38"
    ELSE IF ~(0 <= c.customer_arr /\ c.customer_arr <= 15)
        THEN "Customer ARR must be 0-15"
    ELSE IF ~(0 <= c.frequency /\ c.frequency <= 16)
        THEN "Frequency must be 0-16"
    ELSE IF ~(0 <= c.workaround /\ c.workaround <= 15)
        THEN "Workaround must be 0-15"
    ELSE IF c.rca_action_item \notin {0, 8}
        THEN "RCA Action Item must be 0 or 8"
    ELSE IF ~(0 <= c.support_multiplier /\ c.support_multiplier <= 150)
        THEN "Support Multiplier must be 0-0.15"
    ELSE IF ~(0 <= c.account_multiplier /\ c.account_multiplier <= 150)
        THEN "Account Multiplier must be 0-0.15"
    ELSE "ok"

\* Variant of _validate_components with the severity bound off by one (0-39).
_validate_components_sev39(c) ==
    IF ~(0 <= c.impact_severity /\ c.impact_severity <= 39)
        THEN "Impact & Severity must be 0-38"
    ELSE IF ~(0 <= c.customer_arr /\ c.customer_arr <= 15)
        THEN "Customer ARR must be 0-15"
    ELSE IF c.sla_breach \notin {0, 8}
        THEN "SLA Breach must be 0 or 8"
    ELSE IF ~(0 <= c.frequency /\ c.frequency <= 16)
        THEN "Frequency must be 0-16"
    ELSE IF ~(0 <= c.workaround /\ c.workaround <= 15)
        THEN "Workaround must be 0-15"
    ELSE IF c.rca_action_item \notin {0, 8}
        THEN "RCA Action Item must be 0 or 8"
    ELSE IF ~(0 <= c.support_multiplier /\ c.support_multiplier <= 150)
        THEN "Support Multiplier must be 0-0.15"
    ELSE IF ~(0 <= c.account_multiplier /\ c.account_multiplier <= 150)
        THEN "Account Multiplier must be 0-0.15"
    ELSE "ok"

\* The first failing check of _validate_components, or "ok" when none raises.
_validate_components(c) ==
    IF ~(0 <= c.impact_severity /\ c.impact_severity <= 38)
        THEN "Impact & Severity must be 0-38"
    ELSE IF ~(0 <= c.customer_arr /\ c.customer_arr <= 15)
        THEN "Customer ARR must be 0-15"
    ELSE IF c.sla_breach \notin {0, 8}
        THEN "SLA Breach must be 0 or 8"
    ELSE IF ~(0 <= c.frequency /\ c.frequency <= 16)
        THEN "Frequency must be 0-16"
    ELSE IF ~(0 <= c.workaround /\ c.workaround <= 15)
        THEN "Workaround must be 0-15"
    ELSE IF c.rca_action_item \notin {0, 8}
        THEN "RCA Action Item must be 0 or 8"
    ELSE IF ~(0 <= c.support_multiplier /\ c.support_multiplier <= 150)
        THEN "Support Multiplier must be 0-0.15"
    ELSE IF ~(0 <= c.account_multiplier /\ c.account_multiplier <= 150)
        THEN "Account Multiplier must be 0-0.15"
    ELSE "ok"

\* base_score = sum of the six integer components.
BaseScore(c) ==
    c.impact_severity + c.customer_arr + c.sla_breach
        + c.frequency + c.workaround + c.rca_action_item

\* impact_score = base_score * (1 + support + account), in thousandths.
ImpactProduct(c) ==
    BaseScore(c) * (1000 + c.support_multiplier + c.account_multiplier)

\* The signs the double's error can have for these components.
FloatErrors(c) ==
    IF c.support_multiplier = 0 /\ c.account_multiplier = 0
        THEN {0} ELSE {-1, 0, 1}

\* Variant of Round1 that truncates to the tenth below instead of rounding.
Round1_truncate(n, fp) == n \div 100

\* round(x, 1) of the double whose exact value is n thousandths and whose
\* error has sign fp; the result is in tenths.  Off a tie the nearest tenth;
\* on a tie the side the double fell on, and half-to-even when the double is
\* the tie itself.
Round1(n, fp) ==
    LET lo == n \div 100
        rem == n % 100
    IN  IF rem > 50 THEN lo + 1
        ELSE IF rem < 50 THEN lo
        ELSE IF fp > 0 THEN lo + 1
        ELSE IF fp < 0 THEN lo
        ELSE IF lo % 2 = 0 THEN lo ELSE lo + 1

NoCall == [op |-> "none"]

calculate_impact_score(c, fp) ==
    LET check == _validate_components(c)
    IN  IF check # "ok"
            THEN [op |-> "ImpactScoreCalculator.calculate_impact_score",
                  raised |-> TRUE, error |-> check]
            ELSE [op |-> "ImpactScoreCalculator.calculate_impact_score",
                  raised |-> FALSE, score |-> Round1(ImpactProduct(c), fp)]

CalculateImpactScore ==
    /\ \E fp \in FloatErrors(components) :
           outcome' = calculate_impact_score(components, fp)
    /\ UNCHANGED <<components, classified>>
    /\ UNCHANGED <<estimatorVars, labelVars, processorVars>>

---------------------------------------------------------------------------
(* Priority classification.                                                *)

\* Variant of _classify_priority whose CRITICAL threshold is exclusive.
_classify_priority_gt90(score) ==
    IF score > 900 THEN "CRITICAL"
    ELSE IF score >= 700 THEN "HIGH"
    ELSE IF score >= 500 THEN "MEDIUM"
    ELSE IF score >= 300 THEN "LOW"
    ELSE "MINIMAL"

\* JiraImpactScoreProcessor._classify_priority, of a score in tenths.
_classify_priority(score) ==
    IF score >= 900 THEN "CRITICAL"
    ELSE IF score >= 700 THEN "HIGH"
    ELSE IF score >= 500 THEN "MEDIUM"
    ELSE IF score >= 300 THEN "LOW"
    ELSE "MINIMAL"

\* final_score >= t for the double whose exact value is n thousandths and
\* whose error has sign fp, t being a whole number of points.
FloatGE(n, fp, t) == n > 1000 * t \/ (n = 1000 * t /\ fp >= 0)

\* The if-chain "Classify priority" that ImpactScoreEstimator.calculate_score
\* and IntelligentImpactEstimator.calculate_impact_score apply to the
\* unrounded final_score.
ClassifyFinalScore(n, fp) ==
    IF FloatGE(n, fp, 90) THEN "CRITICAL"
    ELSE IF FloatGE(n, fp, 70) THEN "HIGH"
    ELSE IF FloatGE(n, fp, 50) THEN "MEDIUM"
    ELSE IF FloatGE(n, fp, 30) THEN "LOW"
    ELSE "MINIMAL"

\* Scores, in tenths, handed to the classification on its own.
ScoreInputs == {-1, 0, 299, 300, 499, 500, 699, 700, 899, 900, 1300}

\* One classification of a score given as a one-decimal literal: by
\* _classify_priority and by the inline if-chain (the literal is exact).
Classify(score) ==
    /\ classified' =
           <<classified[2],
             [score |-> score,
              level |-> _classify_priority(score),
              inline |-> ClassifyFinalScore(100 * score, 0)]>>
    /\ UNCHANGED <<components, outcome>>
    /\ UNCHANGED <<estimatorVars, labelVars, processorVars>>

NoClassification == [score |-> 0, level |-> "none", inline |-> "none"]

InitClassify ==
    /\ classified = <<NoClassification, NoClassification>>
    /\ NoLabelCall
    /\ ProcessorConstructed
    /\ components = [impact_severity |-> 0, customer_arr |-> 0,
                     sla_breach |-> 0, frequency |-> 0, workaround |-> 0,
                     rca_action_item |-> 0, support_multiplier |-> 0,
                     account_multiplier |-> 0]
    /\ outcome = NoCall
    /\ EstimatorConstructed

NextClassify == \E score \in ScoreInputs : Classify(score)

SpecClassify == InitClassify /\ [][NextClassify]_vars

\* C4: the classification is a monotonic non-decreasing step function of
\* the score with lower-bound-inclusive thresholds: >= 90 CRITICAL, >= 70
\* HIGH, >= 50 MEDIUM, >= 30 LOW, below 30 MINIMAL; 90, 70, 50, 30 fall in
\* the higher tier and 89.9, 69.9, 49.9, 29.9 in the lower one.
C4_ClassificationIsMonotoneStep ==
    LET rank == [l \in {"MINIMAL", "LOW", "MEDIUM", "HIGH", "CRITICAL"} |->
                    CASE l = "MINIMAL" -> 0 [] l = "LOW" -> 1
                      [] l = "MEDIUM" -> 2 [] l = "HIGH" -> 3
                      [] l = "CRITICAL" -> 4]
        prev == classified[1]
        cur == classified[2]
        step(l) ==
            /\ l = "CRITICAL" <=> cur.score >= 900
            /\ l = "HIGH" <=> (700 <= cur.score /\ cur.score < 900)
            /\ l = "MEDIUM" <=> (500 <= cur.score /\ cur.score < 700)
            /\ l = "LOW" <=> (300 <= cur.score /\ cur.score < 500)
            /\ l = "MINIMAL" <=> cur.score < 300
    IN  cur.level # "none" =>
          /\ step(cur.level)
          /\ step(cur.inline)
          /\ (prev.level # "none" /\ prev.score <= cur.score) =>
                 /\ rank[prev.level] <= rank[cur.level]
                 /\ rank[prev.inline] <= rank[cur.inline]

\* C4 witness: 89.9 was classified HIGH and then 90.0 CRITICAL.
C4_Witness ==
    /\ classified[1].score = 899 /\ classified[1].level = "HIGH"
    /\ classified[2].score = 900 /\ classified[2].level = "CRITICAL"

---------------------------------------------------------------------------
(* The other three implementations of the scoring formula.                 *)

\* JiraImpactScoreProcessor._calculate_impact_score: no validation.
_calculate_impact_score(c, fp) ==
    LET base_score == c.impact_severity + c.customer_arr + c.sla_breach
                        + c.frequency + c.workaround + c.rca_action_item
        total_multiplier == 1000 + c.support_multiplier + c.account_multiplier
        impact_score == base_score * total_multiplier
    IN  Round1(impact_score, fp)

\* Variant of calculate_score that leaves the account multiplier out.
calculate_score_without_account_multiplier(c, fp) ==
    LET base_score == c.impact_severity + c.customer_arr + c.sla_breach
                        + c.frequency + c.workaround + c.rca_action_item
        total_multiplier == 1000 + c.support_multiplier
        final_score == base_score * total_multiplier
        priority == ClassifyFinalScore(final_score, fp)
    IN  [base_score |-> base_score, score |-> Round1(final_score, fp),
         priority |-> priority]

\* ImpactScoreEstimator.calculate_score: no validation; the priority is
\* taken from the unrounded final_score, the returned score is rounded.
calculate_score(c, fp) ==
    LET base_score == c.impact_severity + c.customer_arr + c.sla_breach
                        + c.frequency + c.workaround + c.rca_action_item
        total_multiplier == 1000 + c.support_multiplier + c.account_multiplier
        final_score == base_score * total_multiplier
        priority == ClassifyFinalScore(final_score, fp)
    IN  [base_score |-> base_score, score |-> Round1(final_score, fp),
         priority |-> priority]

\* IntelligentImpactEstimator.calculate_impact_score, of the nested dict
\* that estimate_all_components builds ({'score', 'reason'} per component).
IIE_calculate_impact_score(c, fp) ==
    LET base_score == c.impact_severity.score + c.customer_arr.score
                        + c.sla_breach.score + c.frequency.score
                        + c.workaround.score + c.rca_action_item.score
        total_multiplier == 1000 + c.support_multiplier + c.account_multiplier
        final_score == base_score * total_multiplier
        priority == ClassifyFinalScore(final_score, fp)
    IN  [base_score |-> base_score, score |-> Round1(final_score, fp),
         priority |-> priority]

\* The flat components in the dict shape of estimate_all_components.
AsEstimated(c) ==
    [impact_severity |-> [score |-> c.impact_severity, reason |-> "given"],
     customer_arr |-> [score |-> c.customer_arr, reason |-> "given"],
     sla_breach |-> [score |-> c.sla_breach, reason |-> "given"],
     frequency |-> [score |-> c.frequency, reason |-> "given"],
     workaround |-> [score |-> c.workaround, reason |-> "given"],
     rca_action_item |-> [score |-> c.rca_action_item, reason |-> "given"],
     support_multiplier |-> c.support_multiplier,
     account_multiplier |-> c.account_multiplier]

Returned(op, values) == [op |-> op, raised |-> FALSE] @@ values

ProcessorCalculateImpactScore ==
    /\ \E fp \in FloatErrors(components) :
           outcome' = Returned("JiraImpactScoreProcessor._calculate_impact_score",
                               [score |-> _calculate_impact_score(components, fp)])
    /\ UNCHANGED <<components, classified>>
    /\ UNCHANGED <<estimatorVars, labelVars, processorVars>>

EstimatorCalculateScore ==
    /\ \E fp \in FloatErrors(components) :
           outcome' = Returned("ImpactScoreEstimator.calculate_score",
                               calculate_score(components, fp))
    /\ UNCHANGED <<components, classified>>
    /\ UNCHANGED <<estimatorVars, labelVars, processorVars>>

IntelligentCalculateImpactScore ==
    /\ \E fp \in FloatErrors(components) :
           outcome' = Returned("IntelligentImpactEstimator.calculate_impact_score",
                               IIE_calculate_impact_score(AsEstimated(components), fp))
    /\ UNCHANGED <<components, classified>>
    /\ UNCHANGED <<estimatorVars, labelVars, processorVars>>

---------------------------------------------------------------------------
(* The scoring entry points applied to one components object.              *)

InitScoring ==
    /\ components \in ComponentInputs
    /\ outcome = NoCall
    /\ classified = <<NoClassification, NoClassification>>
    /\ NoLabelCall
    /\ ProcessorConstructed
    /\ EstimatorConstructed

NextScoring ==
    \/ CalculateImpactScore
    \/ ProcessorCalculateImpactScore
    \/ EstimatorCalculateScore
    \/ IntelligentCalculateImpactScore

SpecScoring == InitScoring /\ [][NextScoring]_vars

---------------------------------------------------------------------------
(* Claims about the scoring entry points, checked under SpecScoring.        *)

CalculatorReturned ==
    /\ outcome.op = "ImpactScoreCalculator.calculate_impact_score"
    /\ ~outcome.raised

\* C1: for components that pass validation, calculate_impact_score returns
\* base_score * (1 + support + account) rounded to one decimal, base_score
\* being the sum of the six integer components: the returned value is a
\* tenth nearest to the exact product; with both multipliers 0 it is
\* base_score, with both 0.15 it is base_score * 1.3.
C1_FinalScoreIsRoundedProduct ==
    CalculatorReturned =>
        LET c == components
            base == c.impact_severity + c.customer_arr + c.sla_breach
                      + c.frequency + c.workaround + c.rca_action_item
            exact == base * (1000 + c.support_multiplier + c.account_multiplier)
        IN  /\ 100 * outcome.score - exact \in -50..50
            /\ (c.support_multiplier = 0 /\ c.account_multiplier = 0)
                    => outcome.score = 10 * base
            /\ (c.support_multiplier = 150 /\ c.account_multiplier = 150)
                    => outcome.score = 13 * base

\* C1 witness: a score was returned for which rounding changed the product
\* (87 * 1.034 = 89.958 is returned as 90.0).
C1_Witness ==
    /\ CalculatorReturned
    /\ ImpactProduct(components) = 89958
    /\ outcome.score = 900

\* C2: calculate_impact_score raises exactly when a field is outside its
\* bound (so every boundary value is accepted and 39, sla 4 and 0.16 are
\* rejected), a raising call returns no score, and the call leaves the
\* components as they were.
C2_ValidationRejectsExactlyOutOfBound ==
    [][ outcome'.op = "ImpactScoreCalculator.calculate_impact_score" =>
          LET c == components
              inBounds ==
                  /\ c.impact_severity \in 0..38
                  /\ c.customer_arr \in 0..15
                  /\ c.sla_breach \in {0, 8}
                  /\ c.frequency \in 0..16
                  /\ c.workaround \in 0..15
                  /\ c.rca_action_item \in {0, 8}
                  /\ c.support_multiplier \in 0..150
                  /\ c.account_multiplier \in 0..150
          IN  /\ outcome'.raised <=> ~inBounds
              /\ outcome'.raised => "score" \notin DOMAIN outcome'
              /\ components' = components ]_vars

\* C2 witness: sla_breach = 4 with every other field on a documented
\* boundary value was rejected.
C2_Witness ==
    /\ outcome.op = "ImpactScoreCalculator.calculate_impact_score"
    /\ outcome.raised
    /\ components.sla_breach = 4
    /\ components.impact_severity = 38
    /\ components.rca_action_item = 8
    /\ components.support_multiplier = 150
    /\ components.account_multiplier = 0

\* C6 as stated: the base score of the six component maxima (38, 15, 8, 16,
\* 15, 8) is the upper bound 124, and with both multipliers 0.15 the final
\* score there is the upper bound 161.2.
C6_Original ==
    ( /\ CalculatorReturned
      /\ components.impact_severity = 38 /\ components.customer_arr = 15
      /\ components.sla_breach = 8 /\ components.frequency = 16
      /\ components.workaround = 15 /\ components.rca_action_item = 8
      /\ components.support_multiplier = 150
      /\ components.account_multiplier = 150 )
    => LET c == components
           base == c.impact_severity + c.customer_arr + c.sla_breach
                     + c.frequency + c.workaround + c.rca_action_item
       IN  base = 124 /\ outcome.score = 1612

\* C6 (amended): over components that pass validation base_score lies in
\* [0, 100] (100 = 38+15+8+16+15+8) and the final score lies in [0, 130.0].
C6_ScoreRanges ==
    CalculatorReturned =>
        LET c == components
            base == c.impact_severity + c.customer_arr + c.sla_breach
                      + c.frequency + c.workaround + c.rca_action_item
        IN  /\ base \in 0..100
            /\ outcome.score \in 0..1300

\* C6 witness: the upper end is attained, base 100 and final score 130.0.
C6_Witness ==
    /\ CalculatorReturned
    /\ BaseScore(components) = 100
    /\ outcome.score = 1300

\* C3 as stated: no scoring entry point returns a score for components
\* that violate a ScoreComponents bound; each of the four validates first
\* and rejects out-of-range input.
C3_NoScoreForInvalidComponents ==
    (outcome.op # "none" /\ ~outcome.raised) =>
        LET c == components
        IN  /\ c.impact_severity \in 0..38
            /\ c.customer_arr \in 0..15
            /\ c.sla_breach \in {0, 8}
            /\ c.frequency \in 0..16
            /\ c.workaround \in 0..15
            /\ c.rca_action_item \in {0, 8}
            /\ c.support_multiplier \in 0..150
            /\ c.account_multiplier \in 0..150

\* C5 as stated: whenever a scoring function returns a final score together
\* with a priority tier, for components within their bounds, the tier is
\* the classification of the returned one-decimal score.
C5_TierClassifiesReturnedScore ==
    ( /\ outcome.op # "none" /\ ~outcome.raised
      /\ "priority" \in DOMAIN outcome
      /\ _validate_components(components) = "ok" )
    => /\ outcome.priority = "CRITICAL" <=> outcome.score >= 900
       /\ outcome.priority = "HIGH" <=> outcome.score \in 700..899
       /\ outcome.priority = "MEDIUM" <=> outcome.score \in 500..699
       /\ outcome.priority = "LOW" <=> outcome.score \in 300..499
       /\ outcome.priority = "MINIMAL" <=> outcome.score < 300

---------------------------------------------------------------------------
(* IntelligentImpactEstimator (src/src/intelligent_estimator.py): the six  *)
(* estimate_* cascades.  td is ticket_data, tb the class tables.           *)

Estimate(score, reason) == [raised |-> FALSE, score |-> score, reason |-> reason]
Raises(error) == [raised |-> TRUE, error |-> error]

\* key in table / table[key], for a dict written as a sequence of pairs.
HasKey(table, key) == \E k \in 1..Len(table) : table[k][1] = key
Lookup(table, key) == table[CHOOSE k \in 1..Len(table) : table[k][1] = key][2]

\* (description or '') + ' ' + (summary or ''), not yet lowercased.
DescAndSummary(td) ==
    OrEmpty(Get(td, "description")) \o " " \o OrEmpty(Get(td, "summary"))

\* self.ticket_data.get('labels', [])
LabelsOf(td) == IF "labels" \in DOMAIN td THEN td["labels"] ELSE <<>>

\* Variant of estimate_impact_severity that scans the text keywords before
\* the priority and severity fields.
estimate_impact_severity_text_first(td, tb) ==
    LET desc == Lower(DescAndSummary(td))
        priority == Lower(OrEmpty(Get(td, "priority")))
    IN  IF ContainsAny(desc, <<"critical", "down", "outage", "stopped", "crash", "data loss">>)
            THEN Estimate(38, "Critical keywords found in description")
        ELSE IF ContainsAny(desc, <<"degraded", "slow", "performance">>)
            THEN Estimate(30, "Performance degradation keywords found")
        ELSE IF HasKey(tb.PRIORITY_TO_SEVERITY, priority)
            THEN Estimate(Lookup(tb.PRIORITY_TO_SEVERITY, priority), "Priority")
        ELSE Estimate(22, "No clear severity indicators, defaulting to P3")

\* Variant of estimate_impact_severity that consults the priority mapping
\* before the monitoring rule.
estimate_impact_severity_priority_first(td, tb) ==
    LET desc == Lower(DescAndSummary(td))
        priority == Lower(OrEmpty(Get(td, "priority")))
    IN  IF HasKey(tb.PRIORITY_TO_SEVERITY, priority)
            THEN Estimate(Lookup(tb.PRIORITY_TO_SEVERITY, priority),
                          "Priority '" \o priority \o "' indicates "
                              \o ToString(Lookup(tb.PRIORITY_TO_SEVERITY, priority))
                              \o " points")
        ELSE IF ContainsAny(desc, <<"metric", "monitoring", "alert", "dashboard">>)
            THEN Estimate(16, "Monitoring/metrics issue with service functioning normally (P4)")
        ELSE Estimate(22, "No clear severity indicators, defaulting to P3")

estimate_impact_severity(td, tb) ==
    LET desc == Lower(DescAndSummary(td))
        p4_indicators ==
            <<"metric", "metrics", "monitoring", "prometheus", "grafana",
              "alert", "alerting", "false alert", "reporting",
              "dashboard", "visualization", "observability">>
        is_monitoring_issue == ContainsAny(desc, p4_indicators)
        service_ok_indicators ==
            <<"service is fine", "service working", "db is working",
              "fully functional", "no actual", "appears to be",
              "reporting issue", "calculation artifact", "metrics artifact">>
        service_is_ok == ContainsAny(desc, service_ok_indicators)
        priority == Lower(OrEmpty(Get(td, "priority")))
        severity == Lower(OrEmpty(Get(td, "severity")))
        mappings == tb.SEVERITY_MAPPINGS
        keys == [k \in 1..Len(mappings) |-> mappings[k][1]]
        hit == FirstContained(severity, keys)
    IN  IF is_monitoring_issue /\ service_is_ok
            THEN Estimate(16, "Monitoring/metrics issue with service functioning normally (P4)")
        ELSE IF HasKey(tb.PRIORITY_TO_SEVERITY, priority)
            THEN LET score == Lookup(tb.PRIORITY_TO_SEVERITY, priority)
                 IN  IF is_monitoring_issue /\ service_is_ok /\ score > 16
                         THEN Estimate(16, "Priority '" \o priority \o "' indicates "
                                  \o ToString(score)
                                  \o " points, but adjusted to 16 for monitoring-only issue")
                         ELSE Estimate(score, "Priority '" \o priority \o "' indicates "
                                  \o ToString(score) \o " points")
        ELSE IF hit # 0
            THEN LET key == mappings[hit][1]
                     score == mappings[hit][2]
                 IN  IF (Contains(key, "4") \/ Contains(severity, "low")) /\ is_monitoring_issue
                         THEN Estimate(16, "Severity field '" \o severity \o "' maps to "
                                  \o ToString(score) \o " points (monitoring issue)")
                         ELSE Estimate(score, "Severity field '" \o severity \o "' maps to "
                                  \o ToString(score) \o " points")
        ELSE IF ContainsAny(desc, <<"critical", "down", "outage", "stopped", "crash", "data loss">>)
            THEN IF service_is_ok
                     THEN Estimate(16, "Critical keywords found but service is functioning (P4)")
                     ELSE Estimate(38, "Critical keywords found in description")
        ELSE IF ContainsAny(desc, <<"degraded", "slow", "performance">>)
            THEN IF is_monitoring_issue /\ service_is_ok
                     THEN Estimate(16, "Performance keywords found but service OK (monitoring issue, P4)")
                     ELSE Estimate(30, "Performance degradation keywords found")
        ELSE IF ContainsAny(desc, <<"error", "bug", "issue", "problem">>)
            THEN IF is_monitoring_issue /\ service_is_ok
                     THEN Estimate(16, "Issue keywords found but monitoring-only (P4)")
                     ELSE Estimate(22, "General issue keywords found")
        ELSE Estimate(22, "No clear severity indicators, defaulting to P3")

\* Variant of estimate_customer_arr that looks at the labels before the
\* 'multiple customers' phrase.
estimate_customer_arr_labels_first(td, tb) ==
    LET customer == Lower(OrEmpty(Get(td, "customer_name")))
        desc == Lower(DescAndSummary(td))
        vips == [k \in 1..Len(tb.VIP_CUSTOMERS) |-> Lower(tb.VIP_CUSTOMERS[k])]
        vip == IF ContainsAny(customer, vips) \/ ContainsAny(desc, vips)
                   THEN CHOOSE k \in 1..Len(vips) :
                            /\ Contains(customer, vips[k]) \/ Contains(desc, vips[k])
                            /\ \A i \in 1..(k - 1) :
                                   ~(Contains(customer, vips[i]) \/ Contains(desc, vips[i]))
                   ELSE 0
        labels_str == Lower(JoinSpace(LabelsOf(td)))
    IN  IF vip # 0
            THEN Estimate(15, "VIP customer '" \o tb.VIP_CUSTOMERS[vip] \o "' identified")
        ELSE IF Contains(labels_str, "enterprise") \/ Contains(labels_str, "premium")
            THEN Estimate(13, "Enterprise/Premium labels found")
        ELSE IF Contains(desc, "multiple customers") \/ Contains(desc, "several customers")
            THEN Estimate(8, "Multiple customers mentioned")
        ELSE IF Contains(desc, "essentials") \/ Contains(desc, "standard")
            THEN Estimate(10, "Standard subscription tier mentioned")
        ELSE IF customer # "" \/ Contains(desc, "customer")
            THEN Estimate(10, "Customer mentioned but ARR unknown")
        ELSE Estimate(0, "No customer information found, assuming single low ARR")

estimate_customer_arr(td, tb) ==
    LET customer == Lower(OrEmpty(Get(td, "customer_name")))
        desc == Lower(DescAndSummary(td))
        vips == [k \in 1..Len(tb.VIP_CUSTOMERS) |-> Lower(tb.VIP_CUSTOMERS[k])]
        vip == IF ContainsAny(customer, vips) \/ ContainsAny(desc, vips)
                   THEN CHOOSE k \in 1..Len(vips) :
                            /\ Contains(customer, vips[k]) \/ Contains(desc, vips[k])
                            /\ \A i \in 1..(k - 1) :
                                   ~(Contains(customer, vips[i]) \/ Contains(desc, vips[i]))
                   ELSE 0
        labels_str == Lower(JoinSpace(LabelsOf(td)))
    IN  IF vip # 0
            THEN Estimate(15, "VIP customer '" \o tb.VIP_CUSTOMERS[vip] \o "' identified")
        ELSE IF Contains(desc, "multiple customers") \/ Contains(desc, "several customers")
            THEN Estimate(8, "Multiple customers mentioned")
        ELSE IF Contains(labels_str, "enterprise") \/ Contains(labels_str, "premium")
            THEN Estimate(13, "Enterprise/Premium labels found")
        ELSE IF Contains(desc, "essentials") \/ Contains(desc, "standard")
            THEN Estimate(10, "Standard subscription tier mentioned")
        ELSE IF customer # "" \/ Contains(desc, "customer")
            THEN Estimate(10, "Customer mentioned but ARR unknown")
        ELSE Estimate(0, "No customer information found, assuming single low ARR")

\* re.search(r'(\d+)\s*(hour|hr|minute|min).*down', desc): a digit, optional
\* whitespace, a unit, then "down" later on the same line.
DowntimeDurationFound(desc) ==
    \E p \in 1..Len(desc) :
        /\ IsDigit(CharAt(desc, p))
        /\ LET q == SkipSpace(desc, p + 1)
           IN  \E unit \in {"hour", "hr", "minute", "min"} :
                   /\ HasAt(desc, q, unit)
                   /\ \E d \in (q + Len(unit))..(Len(desc) - 3) :
                          /\ HasAt(desc, d, "down")
                          /\ ~Contains(SubSeq(desc, q + Len(unit), d - 1), "\n")

\* desc[:desc.find('down')], for a desc that contains 'down'.
BeforeFirstDown(desc) ==
    LET first == CHOOSE d \in 1..Len(desc) :
                     /\ HasAt(desc, d, "down")
                     /\ \A e \in 1..(d - 1) : ~HasAt(desc, e, "down")
    IN  SubSeq(desc, 1, first - 1)

estimate_sla_breach(td, tb) ==
    LET desc == Lower(DescAndSummary(td) \o " " \o OrEmpty(Get(td, "rca")))
        no_breach_indicators ==
            <<"no sla breach", "no downtime", "no shard downtime",
              "no actual", "shards stable", "service is fine",
              "fully functional", "no service impact">>
        keyword == FirstContained(desc, tb.SLA_KEYWORDS)
        downtime ==
            IF Contains(desc, "down")
                THEN DowntimeDurationFound(desc) /\ ~Contains(BeforeFirstDown(desc), "no")
                ELSE FALSE
    IN  IF ContainsAny(desc, no_breach_indicators)
            THEN Estimate(0, "No SLA breach (service confirmed stable/functional)")
        ELSE IF keyword # 0
            THEN Estimate(8, "SLA breach keyword '" \o tb.SLA_KEYWORDS[keyword] \o "' found")
        ELSE IF downtime
            THEN Estimate(8, "Downtime duration mentioned, potential SLA impact")
        \* self.ticket_data.get('priority', '').lower(): the default '' only
        \* replaces a missing key, a stored None has no lower().
        ELSE IF "priority" \in DOMAIN td /\ td["priority"] = None
            THEN Raises("AttributeError: 'NoneType' object has no attribute 'lower'")
        ELSE IF Lower(OrEmpty(Get(td, "priority"))) \in {"blocker", "critical", "highest"}
            THEN Estimate(8, "Critical priority suggests potential SLA breach")
        ELSE Estimate(0, "No SLA breach indicators found")

\* The end of the run of digits that starts at position p.
RECURSIVE DigitsEnd(_, _)
DigitsEnd(text, p) ==
    IF p < Len(text) /\ IsDigit(CharAt(text, p + 1)) THEN DigitsEnd(text, p + 1) ELSE p

\* A match of r'(\d+)\s*(times|occurrences)' starts at p.
CountMatchAt(desc, p) ==
    /\ IsDigit(CharAt(desc, p))
    /\ LET q == SkipSpace(desc, DigitsEnd(desc, p) + 1)
       IN  HasAt(desc, q, "times") \/ HasAt(desc, q, "occurrences")

\* group(1) of the leftmost match, as an int; -1 when there is no match.
MentionedCount(desc) ==
    IF \E p \in 1..Len(desc) : CountMatchAt(desc, p)
        THEN LET p == CHOOSE i \in 1..Len(desc) :
                          /\ CountMatchAt(desc, i)
                          /\ \A h \in 1..(i - 1) : ~CountMatchAt(desc, h)
             IN  ParseInt(SubSeq(desc, p, DigitsEnd(desc, p)))
        ELSE -1

\* re.search(r'RED-\d+', desc)
TicketReferenceFound(desc) ==
    \E p \in 1..Len(desc) : HasAt(desc, p, "RED-") /\ IsDigit(CharAt(desc, p + 4))

estimate_frequency(td, tb) ==
    LET desc == Lower(DescAndSummary(td))
        count == MentionedCount(desc)
        multiple == FirstContained(desc, tb.FREQUENCY_KEYWORDS.multiple)
        single == FirstContained(desc, tb.FREQUENCY_KEYWORDS.single)
    IN  IF count > 4
            THEN Estimate(16, ToString(count) \o " occurrences mentioned")
        ELSE IF count >= 2
            THEN Estimate(8, ToString(count) \o " occurrences mentioned")
        ELSE IF multiple # 0
            THEN Estimate(16, "Multiple occurrence keyword '"
                     \o tb.FREQUENCY_KEYWORDS.multiple[multiple] \o "' found")
        ELSE IF single # 0
            THEN Estimate(0, "Single occurrence keyword '"
                     \o tb.FREQUENCY_KEYWORDS.single[single] \o "' found")
        ELSE IF Contains(desc, "similar to") \/ Contains(desc, "same as")
                  \/ TicketReferenceFound(desc)
            THEN Estimate(8, "References to similar issues found")
        ELSE Estimate(0, "No clear frequency indicators, assuming single occurrence")

\* Variant of estimate_workaround whose default, without any workaround
\* information, is 0.
estimate_workaround_default_zero(td, tb) ==
    LET workaround_text == OrEmpty(Get(td, "workaround"))
        combined == Lower(workaround_text \o " " \o DescAndSummary(td))
    IN  IF ContainsAny(combined, tb.WORKAROUND_KEYWORDS.none)
            THEN Estimate(15, "No workaround available, fix required")
        ELSE IF Contains(combined, "workaround")
            THEN Estimate(5, "Simple workaround found")
        ELSE IF Strip(workaround_text) # ""
            THEN Estimate(10, "Workaround field populated")
        ELSE Estimate(0, "No clear workaround information")

estimate_workaround(td, tb) ==
    LET workaround_text == OrEmpty(Get(td, "workaround"))
        combined == Lower(workaround_text \o " " \o DescAndSummary(td))
        kw == tb.WORKAROUND_KEYWORDS
        has_workaround ==
            Contains(combined, "workaround") \/ Contains(combined, "use instead")
                \/ Contains(combined, "alternative")
    IN  IF ContainsAny(combined, kw.none)
            THEN Estimate(15, "No workaround available, fix required")
        ELSE IF /\ (Contains(combined, "fix") \/ Contains(combined, "patch")
                      \/ Contains(combined, "requires version"))
                /\ ~Contains(combined, "workaround")
            THEN Estimate(15, "Fix/patch required, no workaround")
        ELSE IF has_workaround
            THEN IF ContainsAny(combined, kw.with_impact)
                     THEN Estimate(12, "Workaround with performance/operational impact detected")
                 ELSE IF ContainsAny(combined, kw.complex)
                     THEN Estimate(10, "Complex workaround found")
                 ELSE Estimate(5, "Simple workaround found")
        ELSE IF /\ workaround_text # ""
                /\ Strip(workaround_text) # ""
                /\ Lower(workaround_text) \notin {"nan", "none", "n/a"}
            THEN IF ContainsAny(Lower(workaround_text), kw.with_impact)
                     THEN Estimate(12, "Workaround field shows performance/operational impact")
                 ELSE IF ContainsAny(Lower(workaround_text), kw.complex)
                     THEN Estimate(10, "Workaround field shows complex workaround")
                 ELSE Estimate(10, "Workaround field populated")
        ELSE Estimate(10, "No clear workaround information, assuming complex workaround needed")

estimate_rca_action_item(td, tb) ==
    LET rca_text == OrEmpty(Get(td, "rca"))
        combined == Lower(rca_text \o " " \o DescAndSummary(td))
        keyword == FirstContained(combined, tb.RCA_KEYWORDS)
        labels_str == Lower(JoinSpace(LabelsOf(td)))
    IN  IF rca_text # "" /\ Strip(rca_text) # "" /\ Len(Strip(rca_text)) > 50
            THEN Estimate(8, "RCA field contains substantial content")
        ELSE IF keyword # 0
            THEN Estimate(8, "RCA keyword '" \o tb.RCA_KEYWORDS[keyword] \o "' found")
        ELSE IF Contains(labels_str, "rca") \/ Contains(labels_str, "postmortem")
            THEN Estimate(8, "RCA label found")
        ELSE Estimate(0, "No RCA indicators found")

\* estimate_all_components: the six estimates in source order, then the dict;
\* an exception of an estimate_* call propagates.
estimate_all_components(td, tb) ==
    LET severity == estimate_impact_severity(td, tb)
        arr == estimate_customer_arr(td, tb)
        sla == estimate_sla_breach(td, tb)
        freq == estimate_frequency(td, tb)
        work == estimate_workaround(td, tb)
        rca == estimate_rca_action_item(td, tb)
        entry(e) == [score |-> e.score, reason |-> e.reason]
    IN  IF sla.raised THEN sla
        ELSE [raised |-> FALSE,
              components |->
                [impact_severity |-> entry(severity),
                 customer_arr |-> entry(arr),
                 sla_breach |-> entry(sla),
                 frequency |-> entry(freq),
                 workaround |-> entry(work),
                 rca_action_item |-> entry(rca),
                 support_multiplier |-> 0,
                 account_multiplier |-> 0]]

---------------------------------------------------------------------------
(* Sheets.  A row is the sequence of its <<header, cell>> pairs in column   *)
(* order; a cell is None (NaN / empty) or Some(text).                      *)

HasColumn(row, header) == \E k \in 1..Len(row) : row[k][1] = header
Cell(row, header) == row[CHOOSE k \in 1..Len(row) : row[k][1] = header][2]

\* _get_field: the first of field_names that is a column with a non-NaN cell.
RECURSIVE _get_field(_, _)
_get_field(row, field_names) ==
    IF field_names = <<>> THEN None
    ELSE IF HasColumn(row, Head(field_names)) /\ Cell(row, Head(field_names)) # None
        THEN Some(Cell(row, Head(field_names))[1])
    ELSE _get_field(row, Tail(field_names))

\* _get_labels: the non-NaN cells of the columns whose header starts with
\* 'Labels', in column order.
RECURSIVE _get_labels(_)
_get_labels(row) ==
    IF row = <<>> THEN <<>>
    ELSE IF HasAt(Head(row)[1], 1, "Labels") /\ Head(row)[2] # None
        THEN <<Head(row)[2][1]>> \o _get_labels(Tail(row))
    ELSE _get_labels(Tail(row))

\* The ticket_data dict that extract_ticket_info builds from df.iloc[0].
TicketDataOf(row) ==
    [issue_key |-> _get_field(row, <<"Issue key", "Jira", "Key">>),
     summary |-> _get_field(row, <<"Summary">>),
     description |-> _get_field(row, <<"Description">>),
     priority |-> _get_field(row, <<"Priority">>),
     issue_type |-> _get_field(row, <<"Issue Type">>),
     status |-> _get_field(row, <<"Status">>),
     severity |-> _get_field(row, <<"Custom field (Severity)", "Severity">>),
     labels |-> _get_labels(row),
     customer_name |-> _get_field(row, <<"Custom field (Customer Name)",
                                         "Custom field (Account Name)",
                                         "Custom field (CSQ Customer Name)">>),
     workaround |-> _get_field(row, <<"Custom field (Workaround)">>),
     rca |-> _get_field(row, <<"Custom field (RCA)">>),
     zendesk |-> _get_field(row, <<"Custom field (Zendesk Link)",
                                   "Custom field (Zendesk)",
                                   "Custom field (Zendesk ID/s)">>)]

---------------------------------------------------------------------------
(* Ticket exports handed to IntelligentImpactEstimator.                    *)

\* The row of a Jira export with the given field values.  A None field is a
\* NaN cell, or with sparse no column at all; labels fill the columns
\* 'Labels', 'Labels.1', ...
ExportRow(f, sparse) ==
    LET labelHeaders == <<"Labels", "Labels.1", "Labels.2">>
        labelColumns == [k \in 1..Len(f.labels) |-> <<labelHeaders[k], Some(f.labels[k])>>]
        columns ==
            <<<<"Issue key", Some("RED-1")>>,
              <<"Summary", f.summary>>,
              <<"Description", f.description>>,
              <<"Priority", f.priority>>,
              <<"Custom field (Severity)", f.severity>>>>
            \o labelColumns \o
            <<<<"Custom field (Customer Name)", f.customer_name>>,
              <<"Custom field (Workaround)", f.workaround>>,
              <<"Custom field (RCA)", f.rca>>>>
        present(column) == column[2] # None
    IN  IF sparse THEN SelectSeq(columns, present) ELSE columns

SeverityDescriptions ==
    {None,
     Some("Grafana dashboard shows a wrong value but the DB is working"),
     Some("False alert, reporting issue only - cluster is not down or slow"),
     Some("Prometheus metric is missing"),
     Some("No actual outage, it appears to be fine"),
     Some("Cluster was 2 hours down"),
     Some("Slow performance after upgrade"),
     Some("Bug in the UI"),
     Some("Question about upgrade")}
SeveritySummaries == {None, Some("Node crash")}
SeverityPriorities == {None, Some("Blocker"), Some("Lowest"), Some("Urgent")}
SeverityFields == {None, Some("P1"), Some("4 - Low")}

\* Tickets that vary the inputs of the severity cascade.
SeverityTickets ==
    {ExportRow([description |-> d, summary |-> s, priority |-> p, severity |-> v,
                labels |-> <<>>, customer_name |-> None, workaround |-> None,
                rca |-> None], FALSE) :
        d \in SeverityDescriptions, s \in SeveritySummaries,
        p \in SeverityPriorities, v \in SeverityFields}

\* Tickets with every subset of the optional text fields left out.
OptionalTickets ==
    {ExportRow([description |-> d, summary |-> s, priority |-> p, severity |-> v,
                labels |-> <<>>, customer_name |-> c, workaround |-> w,
                rca |-> r], TRUE) :
        d \in {None, Some("Customer hit an error")},
        s \in {None, Some("Login error")},
        p \in {None, Some("High")},
        v \in {None, Some("P3")},
        c \in {None, Some("Acme")},
        w \in {None, Some("Restart the node")},
        r \in {None, Some("Config drift")}}

\* Tickets that reach the other branches of the cascades.
MixedTickets ==
    {ExportRow([description |-> Some("Failover happened 5 times, multiple customers see downtime"),
                summary |-> Some("Shard failover"), priority |-> Some("Critical"),
                severity |-> Some("Sev 2"), labels |-> <<"Enterprise", "RCA">>,
                customer_name |-> Some("Stripe Inc"), workaround |-> Some("None"),
                rca |-> Some("Root cause: proxy bug")], FALSE),
     ExportRow([description |-> Some("Happened 3 times. No workaround, needs patch"),
                summary |-> Some("Standard plan import fails"), priority |-> None,
                severity |-> None, labels |-> <<"premium">>,
                customer_name |-> None, workaround |-> None,
                rca |-> Some("The resharding job was started during peak load and exhausted memory")],
               FALSE),
     ExportRow([description |-> Some("Seen once, same as last week; workaround is a manual restart"),
                summary |-> Some("A customer reports slower sync"), priority |-> Some("Low"),
                severity |-> None, labels |-> <<"postmortem">>,
                customer_name |-> None, workaround |-> Some("Restart with degraded mode"),
                rca |-> None], TRUE),
     ExportRow([description |-> Some("Similar to RED-12345, use instead the old endpoint"),
                summary |-> None, priority |-> Some("Highest"),
                severity |-> None, labels |-> <<>>,
                customer_name |-> None, workaround |-> Some("  "),
                rca |-> None], FALSE),
     ExportRow([description |-> Some("No SLA breach, 30 min of downtime avoided"),
                summary |-> Some("Several customers asked"), priority |-> Some("Blocker"),
                severity |-> None, labels |-> <<>>,
                customer_name |-> None, workaround |-> Some("Use the replica"),
                rca |-> None], FALSE)}

\* Tickets that vary the inputs of the SLA cascade.
SlaTickets ==
    {ExportRow([description |-> Some(d), summary |-> None, priority |-> p,
                severity |-> None, labels |-> <<>>, customer_name |-> None,
                workaround |-> None, rca |-> None], FALSE) :
        d \in {"Node 3 was 2 hours down",
               "There was no 45 min down period",
               "Manual recovery was needed, no downtime for clients",
               "Question about quotas"},
        p \in {None, Some("Low"), Some("Critical")}}

\* Tickets that vary the inputs of the frequency cascade.
FrequencyTickets ==
    {ExportRow([description |-> Some(d), summary |-> None, priority |-> Some("Medium"),
                severity |-> None, labels |-> <<>>, customer_name |-> None,
                workaround |-> None, rca |-> None], FALSE) :
        d \in {"It happened again after the upgrade",
               "Seen 7 occurrences, first time for this client",
               "Failed 2 times, recurring",
               "Happened 1 times, repeated failure",
               "See RED-777 for details",
               "Observed 0 times since the patch"}}

\* Tickets without a priority that vary the severity field against the text.
SeverityFieldTickets ==
    {ExportRow([description |-> Some(d), summary |-> None, priority |-> None,
                severity |-> Some(v), labels |-> <<>>, customer_name |-> None,
                workaround |-> None, rca |-> None], FALSE) :
        d \in {"Prometheus metric is missing", "Bug in the UI"},
        v \in {"Sev 1", "P2", "3 - Low", "P3", "P4", "P5"}}

\* Tickets that vary the inputs of the workaround, RCA and customer-ARR
\* cascades: description, labels, customer name, workaround field, RCA field.
CascadeTickets ==
    LET Ticket(d, labels, customer, workaround, rca) ==
            ExportRow([description |-> Some(d), summary |-> None,
                       priority |-> Some("Medium"), severity |-> None,
                       labels |-> labels, customer_name |-> customer,
                       workaround |-> workaround, rca |-> rca], FALSE)
    IN  {Ticket("No workaround exists, upgrade", <<>>, None, Some("Restart the proxy"), None),
         Ticket("Requires new version 7.4; workaround is a restart", <<>>, None, None, None),
         Ticket("Requires version 7.4, workaround: restart", <<>>, None, None, None),
         Ticket("Needs a fix in the proxy", <<>>, None, None, None),
         Ticket("Fix pending; workaround is slower", <<>>, None, None, None),
         Ticket("Workaround: manual failover", <<>>, None, None, None),
         Ticket("Workaround: flush the cache", <<>>, None, None, None),
         Ticket("Workaround: need to flush the cache", <<>>, None, None, None),
         Ticket("Crash on import", <<>>, None, Some("Degraded mode"), None),
         Ticket("Crash on import", <<>>, None, Some("Flush the cache"), None),
         Ticket("Crash on import", <<>>, None, Some("N/A"), None),
         Ticket("Crash on import", <<>>, None, Some("Manual failover"), None),
         Ticket("Crash on import", <<>>, None, None,
                Some("The proxy restarted while the shard was being moved")),
         Ticket("Crash on import", <<>>, None, None,
                Some("The proxy restarted while a shard was being moved.")),
         Ticket("Crash on import", <<>>, None, None,
                Some("  The proxy restarted while a shard was being moved.   ")),
         Ticket("Post mortem pending", <<>>, None, None, None),
         Ticket("Crash on import", <<"needs-RCA">>, None, None, None),
         Ticket("Multiple customers report timeouts", <<"Enterprise">>, None, None, None),
         Ticket("Timeouts on import", <<"premium-support">>, None, None, None),
         Ticket("Essentials tier import fails", <<>>, None, None, None),
         Ticket("Zoom calls drop", <<"enterprise">>, None, None, None),
         Ticket("Several customers hit this", <<>>, Some("Initech"), None, None),
         Ticket("Timeouts on import", <<"Enterprise">>, Some("Initech"), None, None)}

ExcelFiles ==
    {Unreadable, [readable |-> TRUE, rows |-> <<>>]}
        \cup {[readable |-> TRUE, rows |-> <<row>>] :
                 row \in SeverityTickets \cup OptionalTickets \cup MixedTickets
                            \cup SlaTickets \cup FrequencyTickets
                            \cup SeverityFieldTickets \cup CascadeTickets}

---------------------------------------------------------------------------
(* Operations of an IntelligentImpactEstimator instance.                   *)

NotEstimated == [assigned |-> FALSE]

\* load_data: self.df is set when the workbook can be read.
LoadData ==
    /\ IF excel_path.readable
           THEN /\ ticket_df' = [loaded |-> TRUE, rows |-> excel_path.rows]
                /\ outcome' = [op |-> "load_data", raised |-> FALSE]
           ELSE /\ ticket_df' = ticket_df
                /\ outcome' = [op |-> "load_data", raised |-> TRUE,
                               error |-> "Exception: Error loading Excel file"]
    /\ UNCHANGED <<components, classified, tables, excel_path, ticket_data,
                 labelVars, processorVars>>

\* extract_ticket_info: ValueError before load_data, IndexError on a sheet
\* without rows (df.iloc[0]), else ticket_data is rebuilt from the first row.
ExtractTicketInfo ==
    /\ IF ~ticket_df.loaded
           THEN /\ ticket_data' = ticket_data
                /\ outcome' = [op |-> "extract_ticket_info", raised |-> TRUE,
                               error |-> "ValueError: No data loaded. Call load_data() first."]
       ELSE IF ticket_df.rows = <<>>
           THEN /\ ticket_data' = ticket_data
                /\ outcome' = [op |-> "extract_ticket_info", raised |-> TRUE,
                               error |-> "IndexError: single positional indexer is out-of-bounds"]
       ELSE /\ ticket_data' = TicketDataOf(ticket_df.rows[1])
            /\ outcome' = [op |-> "extract_ticket_info", raised |-> FALSE]
    /\ UNCHANGED <<components, classified, tables, excel_path, ticket_df,
                 labelVars, processorVars>>

\* Variant of EstimateImpactSeverity that stores the lowercased priority
\* back into ticket_data.
EstimateImpactSeverity_normalises_priority ==
    /\ outcome' = [op |-> "estimate_impact_severity"]
                      @@ estimate_impact_severity(ticket_data, tables)
    /\ ticket_data' =
           IF "priority" \in DOMAIN ticket_data
               THEN [ticket_data EXCEPT
                        !["priority"] = Some(Lower(OrEmpty(ticket_data["priority"])))]
               ELSE ticket_data
    /\ UNCHANGED <<components, classified, tables, excel_path, ticket_df,
                 labelVars, processorVars>>

EstimateImpactSeverity ==
    /\ outcome' = [op |-> "estimate_impact_severity"]
                      @@ estimate_impact_severity(ticket_data, tables)
    /\ UNCHANGED <<components, classified, estimatorVars, labelVars, processorVars>>

EstimateCustomerArr ==
    /\ outcome' = [op |-> "estimate_customer_arr"]
                      @@ estimate_customer_arr(ticket_data, tables)
    /\ UNCHANGED <<components, classified, estimatorVars, labelVars, processorVars>>

EstimateSlaBreach ==
    /\ outcome' = [op |-> "estimate_sla_breach"]
                      @@ estimate_sla_breach(ticket_data, tables)
    /\ UNCHANGED <<components, classified, estimatorVars, labelVars, processorVars>>

EstimateFrequency ==
    /\ outcome' = [op |-> "estimate_frequency"]
                      @@ estimate_frequency(ticket_data, tables)
    /\ UNCHANGED <<components, classified, estimatorVars, labelVars, processorVars>>

EstimateWorkaround ==
    /\ outcome' = [op |-> "estimate_workaround"]
                      @@ estimate_workaround(ticket_data, tables)
    /\ UNCHANGED <<components, classified, estimatorVars, labelVars, processorVars>>

EstimateRcaActionItem ==
    /\ outcome' = [op |-> "estimate_rca_action_item"]
                      @@ estimate_rca_action_item(ticket_data, tables)
    /\ UNCHANGED <<components, classified, estimatorVars, labelVars, processorVars>>

\* components = estimator.estimate_all_components()
EstimateAllComponents ==
    LET result == estimate_all_components(ticket_data, tables)
    IN  /\ IF result.raised
               THEN /\ outcome' = [op |-> "estimate_all_components"] @@ result
                    /\ components' = components
               ELSE /\ outcome' = [op |-> "estimate_all_components", raised |-> FALSE]
                    /\ components' = result.components
        /\ UNCHANGED <<classified, estimatorVars, labelVars, processorVars>>

\* estimator.calculate_impact_score(components), of estimated components.
CalculateEstimatedScore ==
    /\ components # NotEstimated
    /\ \E fp \in FloatErrors(components) :
           outcome' = Returned("IntelligentImpactEstimator.calculate_impact_score",
                               IIE_calculate_impact_score(components, fp))
    /\ UNCHANGED <<components, classified, estimatorVars, labelVars, processorVars>>

InitIntelligent ==
    /\ components = NotEstimated
    /\ outcome = NoCall
    /\ classified = <<NoClassification, NoClassification>>
    /\ NoLabelCall
    /\ ProcessorConstructed
    /\ tables = ClassTables
    /\ excel_path \in ExcelFiles
    /\ ticket_df = NoDf
    /\ ticket_data = EmptyDict

NextIntelligent ==
    \/ LoadData
    \/ ExtractTicketInfo
    \/ EstimateImpactSeverity
    \/ EstimateCustomerArr
    \/ EstimateSlaBreach
    \/ EstimateFrequency
    \/ EstimateWorkaround
    \/ EstimateRcaActionItem
    \/ EstimateAllComponents
    \/ CalculateEstimatedScore

SpecIntelligent == InitIntelligent /\ [][NextIntelligent]_vars

---------------------------------------------------------------------------
(* Claims about IntelligentImpactEstimator, under SpecIntelligent.         *)

EstimateMethods ==
    {"estimate_impact_severity", "estimate_customer_arr", "estimate_sla_breach",
     "estimate_frequency", "estimate_workaround", "estimate_rca_action_item"}

EstimateCalls == EstimateMethods \cup {"estimate_all_components"}

\* components[name]['score'] of every entry, as an ImpactScoreComponents.
ScoresOf(c) ==
    [impact_severity |-> c.impact_severity.score,
     customer_arr |-> c.customer_arr.score,
     sla_breach |-> c.sla_breach.score,
     frequency |-> c.frequency.score,
     workaround |-> c.workaround.score,
     rca_action_item |-> c.rca_action_item.score,
     support_multiplier |-> c.support_multiplier,
     account_multiplier |-> c.account_multiplier]

\* The value sets of the six estimates, zero multipliers, reasons given.
EstimatedComponentsBounded ==
    /\ components.impact_severity.score \in {8, 16, 22, 30, 38}
    /\ components.customer_arr.score \in {0, 8, 10, 13, 15}
    /\ components.sla_breach.score \in {0, 8}
    /\ components.frequency.score \in {0, 8, 16}
    /\ components.workaround.score \in {5, 10, 12, 15}
    /\ components.rca_action_item.score \in {0, 8}
    /\ components.support_multiplier = 0
    /\ components.account_multiplier = 0
    /\ \A name \in {"impact_severity", "customer_arr", "sla_breach",
                    "frequency", "workaround", "rca_action_item"} :
           components[name].reason # ""
    /\ _validate_components(ScoresOf(components)) = "ok"

\* Whenever estimate_all_components has returned, its result is bounded and
\* the estimator's final_score is its base_score.
C7_ReturnedComponentsBounded ==
    /\ components # NotEstimated => EstimatedComponentsBounded
    /\ ( /\ outcome.op = "IntelligentImpactEstimator.calculate_impact_score"
         /\ ~outcome.raised )
       => outcome.score = 10 * outcome.base_score

\* C7: for every ticket-field input estimate_all_components yields a result,
\* and the result is valid and bounded: severity in {8,16,22,30,38}, customer
\* ARR in {0,8,10,13,15}, SLA breach in {0,8}, frequency in {0,8,16},
\* workaround in {5,10,12,15}, RCA in {0,8}, both multipliers 0.0, every
\* reason non-empty; so the components pass _validate_components and the
\* estimator's final_score equals its base_score.
C7_EstimateAllComponentsValidAndBounded ==
    /\ outcome.op = "estimate_all_components"
           => ~outcome.raised /\ components # NotEstimated
    /\ C7_ReturnedComponentsBounded

\* C8: with any subset of the ticket fields missing from ticket_data or
\* present as None, none of the six estimate_* methods and not
\* estimate_all_components raises: each returns a (score, reason) pair.
C8_EstimatesNeverRaiseOnMissingFields ==
    outcome.op \in EstimateCalls =>
        /\ ~outcome.raised
        /\ outcome.op \in EstimateMethods =>
               {"score", "reason"} \subseteq DOMAIN outcome

\* C9: estimation is deterministic and has no hidden state.  A step that
\* calls an estimate_* method or estimate_all_components leaves ticket_data,
\* the class tables and the loaded sheet as they were; calling the method
\* that was called last again gives the same result; and a method called
\* after or before estimate_all_components on the same ticket_data gives the
\* entry that estimate_all_components gives.
C9_EstimationDeterministicAndStateless ==
    [][ outcome'.op \in EstimateCalls =>
          /\ ticket_data' = ticket_data
          /\ tables' = tables /\ tables' = ClassTables
          /\ ticket_df' = ticket_df
          /\ outcome.op = outcome'.op =>
                 /\ outcome' = outcome
                 /\ outcome.op = "estimate_all_components" /\ ~outcome.raised
                        => components' = components
          /\ \A name \in {"impact_severity", "customer_arr", "sla_breach",
                          "frequency", "workaround", "rca_action_item"} :
                 /\ ( /\ outcome.op = "estimate_all_components" /\ ~outcome.raised
                      /\ outcome'.op = "estimate_" \o name )
                    => /\ ~outcome'.raised
                       /\ outcome'.score = components[name].score
                       /\ outcome'.reason = components[name].reason
                 /\ ( /\ outcome.op = "estimate_" \o name
                      /\ outcome'.op = "estimate_all_components" )
                    => IF outcome.raised THEN outcome'.raised
                       ELSE outcome'.raised
                            \/ /\ components'[name].score = outcome.score
                               /\ components'[name].reason = outcome.reason
      ]_vars

\* A ticket is extracted, every component is estimated, and the severity
\* estimate was called again on the unchanged ticket_data.
C9_Witness ==
    /\ outcome.op = "estimate_impact_severity"
    /\ ~outcome.raised
    /\ components # NotEstimated
    /\ ticket_data # EmptyDict
    /\ ticket_data["priority"] = Some("Blocker")
    /\ outcome.score = components.impact_severity.score
    /\ outcome.reason = components.impact_severity.reason
    /\ tables = ClassTables

\* The lowercased description + ' ' + summary names a monitoring or
\* observability keyword and a service-is-OK phrase.
MonitoringIssueWithServiceOk ==
    LET text == Lower(DescAndSummary(ticket_data))
    IN  /\ \E keyword \in {"metric", "metrics", "monitoring", "prometheus",
                           "grafana", "alert", "alerting", "false alert",
                           "reporting", "dashboard", "visualization",
                           "observability"} : Contains(text, keyword)
        /\ \E phrase \in {"service is fine", "service working", "db is working",
                          "fully functional", "no actual", "appears to be",
                          "reporting issue", "calculation artifact",
                          "metrics artifact"} : Contains(text, phrase)

\* C10: estimate_impact_severity returns exactly 16 whenever the combined
\* description + summary text holds a monitoring keyword and a service-is-OK
\* phrase, whatever the priority field, the severity field and the critical,
\* degraded or error keywords of the text: the first rule wins over the
\* priority mapping both when it maps higher and when it maps lower.
C10_MonitoringRuleWinsFirst ==
    ( /\ outcome.op = "estimate_impact_severity"
      /\ MonitoringIssueWithServiceOk )
    => /\ ~outcome.raised
       /\ outcome.score = 16
       /\ outcome.reason = "Monitoring/metrics issue with service functioning normally (P4)"

\* A monitoring ticket with priority Blocker, severity P1 and 'crash' in the
\* summary is estimated at 16.
C10_Witness ==
    /\ outcome.op = "estimate_impact_severity"
    /\ MonitoringIssueWithServiceOk
    /\ ticket_data["priority"] = Some("Blocker")
    /\ ticket_data["severity"] = Some("P1")
    /\ Contains(Lower(DescAndSummary(ticket_data)), "crash")
    /\ outcome.score = 16

\* The lowercased description + ' ' + summary of the extracted ticket.
TicketText == Lower(DescAndSummary(ticket_data))

TextHasAny(words) == \E word \in words : Contains(TicketText, word)

ServiceOkPhraseFound ==
    TextHasAny({"service is fine", "service working", "db is working",
                "fully functional", "no actual", "appears to be",
                "reporting issue", "calculation artifact", "metrics artifact"})

MonitoringKeywordFound ==
    TextHasAny({"metric", "metrics", "monitoring", "prometheus", "grafana",
                "alert", "alerting", "false alert", "reporting", "dashboard",
                "visualization", "observability"})

\* The priority names and severity-field tokens with their scores.
PriorityScores ==
    {<<"blocker", 38>>, <<"critical", 38>>, <<"highest", 38>>, <<"high", 30>>,
     <<"medium", 22>>, <<"low", 16>>, <<"lowest", 8>>, <<"trivial", 8>>}

SeverityTokenScores ==
    {<<"1 - critical", 38>>, <<"1 - high", 38>>, <<"sev 1", 38>>, <<"p1", 38>>,
     <<"2 - high", 30>>, <<"2 - medium", 30>>, <<"sev 2", 30>>, <<"p2", 30>>,
     <<"3 - medium", 22>>, <<"3 - low", 22>>, <<"sev 3", 22>>, <<"p3", 22>>,
     <<"4 - low", 16>>, <<"p4", 16>>, <<"5 - trivial", 8>>, <<"p5", 8>>}

TicketPriority == Lower(OrEmpty(Get(ticket_data, "priority")))
TicketSeverity == Lower(OrEmpty(Get(ticket_data, "severity")))

PriorityIsMapped == \E p \in PriorityScores : p[1] = TicketPriority
SeverityTokenFound == \E t \in SeverityTokenScores : Contains(TicketSeverity, t[1])

\* C11: when the monitoring + service-OK rule does not fire,
\* estimate_impact_severity is first-match-wins in this order: a priority
\* equal, ignoring case, to a mapped name gives its mapped score whatever the
\* severity field and the text say; else a severity-field token decides; else
\* the text tiers critical/down/outage/stopped/crash/data loss (38, or 16
\* with a service-is-OK phrase), then degraded/slow/performance (30), then
\* error/bug/issue/problem (22); else the default 22.
C11_SeverityCascadeOrder ==
    ( /\ outcome.op = "estimate_impact_severity"
      /\ ~MonitoringIssueWithServiceOk )
    => /\ ~outcome.raised
       /\ IF PriorityIsMapped
              THEN <<TicketPriority, outcome.score>> \in PriorityScores
          ELSE IF SeverityTokenFound
              THEN /\ HasAt(outcome.reason, 1, "Severity field '")
                   /\ \E t \in SeverityTokenScores :
                          /\ Contains(TicketSeverity, t[1])
                          /\ outcome.score \in {t[2], 16}
          ELSE IF TextHasAny({"critical", "down", "outage", "stopped", "crash", "data loss"})
              THEN outcome.score = IF ServiceOkPhraseFound THEN 16 ELSE 38
          ELSE IF TextHasAny({"degraded", "slow", "performance"})
              THEN outcome.score = 30
          ELSE IF TextHasAny({"error", "bug", "issue", "problem"})
              THEN /\ outcome.score = 22
                   /\ outcome.reason = "General issue keywords found"
          ELSE /\ outcome.score = 22
               /\ outcome.reason = "No clear severity indicators, defaulting to P3"

\* Priority Lowest gives 8 although the severity field says P1 and the text
\* says 'down' and 'crash'.
C11_Witness ==
    /\ outcome.op = "estimate_impact_severity"
    /\ ~MonitoringIssueWithServiceOk
    /\ TicketPriority = "lowest"
    /\ TicketSeverity = "p1"
    /\ TextHasAny({"down"}) /\ TextHasAny({"crash"})
    /\ outcome.score = 8

\* The lowercased description + ' ' + summary + ' ' + rca of the ticket.
SlaText == Lower(DescAndSummary(ticket_data) \o " " \o OrEmpty(Get(ticket_data, "rca")))

NoBreachPhraseFound ==
    \E phrase \in {"no sla breach", "no downtime", "no shard downtime",
                   "no actual", "shards stable", "service is fine",
                   "fully functional", "no service impact"} :
        Contains(SlaText, phrase)

SlaKeywordFound ==
    \E keyword \in {"sla breach", "sla violated", "exceeded sla",
                    "manual recovery", "downtime"} : Contains(SlaText, keyword)

\* A downtime duration '<N> hour/hr/minute/min ... down' with none of the
\* words no, not, never, without in front of the 'down'.
DowntimeNotNegated ==
    /\ DowntimeDurationFound(SlaText)
    /\ LET before == " " \o BeforeFirstDown(SlaText)
       IN  \A negation \in {" no ", " not ", " never ", " without "} :
               ~Contains(before, negation)

\* C12: estimate_sla_breach returns 0 whenever the description + summary +
\* rca text holds an explicit no-breach phrase, whatever SLA keyword,
\* downtime duration or priority there is; otherwise it returns 8 exactly
\* when an SLA-breach keyword is present, or a downtime duration occurs that
\* is not preceded by a negation, or the priority is blocker, critical or
\* highest; otherwise it returns 0.
C12_SlaBreachRule ==
    outcome.op = "estimate_sla_breach" =>
        /\ ~outcome.raised
        /\ outcome.score =
               IF NoBreachPhraseFound THEN 0
               ELSE IF \/ SlaKeywordFound
                       \/ DowntimeNotNegated
                       \/ TicketPriority \in {"blocker", "critical", "highest"}
                   THEN 8
               ELSE 0

\* The part of C12 that the code keeps: a no-breach phrase gives 0, an SLA
\* keyword without one gives 8, and a returned score is 0 or 8.
C12_NoBreachPhraseShortCircuits ==
    (outcome.op = "estimate_sla_breach" /\ ~outcome.raised) =>
        /\ outcome.score \in {0, 8}
        /\ NoBreachPhraseFound => outcome.score = 0
        /\ (~NoBreachPhraseFound /\ SlaKeywordFound) => outcome.score = 8

\* The score the frequency rules give after the numeric pattern: a
\* multiple-occurrence keyword of the given set, then a single-occurrence
\* keyword, then a 'similar to' / 'same as' phrase, then the default.
FrequencyByKeyword(multipleKeywords) ==
    IF TextHasAny(multipleKeywords) THEN 16
    ELSE IF TextHasAny({"first time", "one time", "single", "once"}) THEN 0
    ELSE IF TextHasAny({"similar to", "same as"}) THEN 8
    ELSE 0

\* C13: estimate_frequency is first-match-wins: an 'N times' / 'N
\* occurrences' pattern with N > 4 gives 16 and with 2 <= N <= 4 gives 8,
\* whatever frequency keyword there is; with N < 2 or no pattern a
\* multiple-occurrence keyword (multiple, several, recurring, repeated) gives
\* 16, else a single-occurrence keyword (first time, one time, single, once)
\* gives 0, else 'similar to' / 'same as' gives 8, else the default 0.
C13_FrequencyCascade ==
    outcome.op = "estimate_frequency" =>
        /\ ~outcome.raised
        /\ outcome.score =
               IF MentionedCount(TicketText) > 4 THEN 16
               ELSE IF MentionedCount(TicketText) >= 2 THEN 8
               ELSE FrequencyByKeyword({"multiple", "several", "recurring", "repeated"})

\* The cascade of C13 with the multiple-occurrence keywords of the code,
\* which has 'again' and 'reoccur' as well.
C13_FrequencyCascadeOfTheCode ==
    outcome.op = "estimate_frequency" =>
        /\ ~outcome.raised
        /\ outcome.score =
               IF MentionedCount(TicketText) > 4 THEN 16
               ELSE IF MentionedCount(TicketText) >= 2 THEN 8
               ELSE FrequencyByKeyword({"multiple", "several", "recurring",
                                        "repeated", "again", "reoccur"})

\* Neither the workaround field nor the description and summary say anything
\* about a workaround or a fix.
NoWorkaroundEvidence ==
    /\ Strip(OrEmpty(Get(ticket_data, "workaround"))) = ""
    /\ ~TextHasAny({"no workaround", "cannot", "impossible", "requires fix",
                    "needs patch", "fix", "patch", "requires version",
                    "workaround", "use instead", "alternative"})

\* C14: estimate_workaround returns only 5, 10, 12 or 15: never 0 or any
\* value below 5, and with no workaround evidence at all (empty workaround
\* field, no workaround or fix keyword in description or summary) it returns
\* the default 10.
C14_WorkaroundScores ==
    outcome.op = "estimate_workaround" =>
        /\ ~outcome.raised
        /\ outcome.score \in {5, 10, 12, 15}
        /\ NoWorkaroundEvidence =>
               /\ outcome.score = 10
               /\ outcome.reason =
                      "No clear workaround information, assuming complex workaround needed"

\* An extracted ticket with a description and without workaround evidence is
\* estimated at the default 10.
C14_Witness ==
    /\ outcome.op = "estimate_workaround"
    /\ ticket_data # EmptyDict
    /\ ticket_data["description"] # None
    /\ NoWorkaroundEvidence
    /\ outcome.score = 10

\* estimate_impact_severity decides by the severity field: the monitoring
\* rule did not fire, the priority is not a mapped name and a token matches.
SeverityFieldStepReached ==
    /\ outcome.op = "estimate_impact_severity"
    /\ ~MonitoringIssueWithServiceOk
    /\ ~PriorityIsMapped
    /\ SeverityTokenFound

\* C20: in the severity-field step the mapped score is replaced by 16 only
\* when a monitoring keyword and a service-is-OK phrase are both present;
\* otherwise a severity field that matches a known token yields exactly its
\* mapped score (p1 / sev 1 -> 38, p2 / sev 2 -> 30, p3 or '3 - low' -> 22,
\* p4 -> 16, p5 -> 8), also when the text merely names a monitoring keyword.
C20_SeverityFieldGivesMappedScore ==
    SeverityFieldStepReached =>
        /\ ~outcome.raised
        /\ \E t \in SeverityTokenScores :
               /\ Contains(TicketSeverity, t[1])
               /\ outcome.score = t[2]

\* What the severity-field step does: the mapped score, but 16 as soon as
\* the text names a monitoring keyword and the field says 'low' or matched a
\* token with a '4'.
C20_SeverityFieldStepOfTheCode ==
    SeverityFieldStepReached =>
        /\ ~outcome.raised
        /\ \E t \in SeverityTokenScores :
               /\ Contains(TicketSeverity, t[1])
               /\ outcome.score =
                      IF /\ MonitoringKeywordFound
                         /\ Contains(t[1], "4") \/ Contains(TicketSeverity, "low")
                          THEN 16 ELSE t[2]

---------------------------------------------------------------------------
(* LabelExtractor (src/src/label_extractor.py).                            *)

TECHNICAL_KEYWORDS ==
    {"crdb", "active-active", "aa", "sentinel", "proxy", "dmcproxy",
     "ovc", "vector-clock",
     "acre", "azure", "aws", "gcp", "kubernetes", "k8s", "rlec",
     "crash", "timeout", "acl", "rbac", "ssl", "tls", "certificate",
     "upgrade", "migration", "failover",
     "modules", "lua", "rdb", "aof",
     "streams", "pubsub", "search", "json", "timeseries", "graph", "bloom"}

EXCLUDED_KEYWORDS ==
    {"redis", "cluster", "database", "shard", "replica", "slave", "master",
     "replication", "sync", "synchronization", "conflict", "resolution", "merge",
     "memory", "cpu", "disk", "network", "latency", "performance",
     "connection", "authentication", "auth", "encryption", "cloud", "enterprise",
     "backup", "restore", "recovery", "restart", "deployment", "scaling", "sharding",
     "scripts", "persistence"}

\* [A-Za-z0-9] and \w of the regular expressions (ASCII text).
Letters == {UpperCase[k] : k \in 1..26} \cup {LowerCase[k] : k \in 1..26}

IsAlnum(ch) == IsDigit(ch) \/ ch \in Letters

IsWordChar(ch) == IsAlnum(ch) \/ ch = "_"

\* The end of the run of [A-Za-z0-9] that starts at position p.
RECURSIVE AlnumEnd(_, _)
AlnumEnd(text, p) ==
    IF p < Len(text) /\ IsAlnum(CharAt(text, p + 1)) THEN AlnumEnd(text, p + 1) ELSE p

\* CUSTOMER_PATTERN.match(summary): group(1) of
\* ^([A-Za-z0-9]+(?:\s+[A-Za-z0-9]+)?)\s*-  or None.  Two words are tried
\* first; when no hyphen follows them the match backtracks to one word.
CustomerPrefix(summary) ==
    IF ~IsAlnum(CharAt(summary, 1)) \/ summary = "" THEN None
    ELSE LET e1 == AlnumEnd(summary, 1)
             q == SkipSpace(summary, e1 + 1)
             e2 == AlnumEnd(summary, q)
             twoWords == /\ q > e1 + 1
                         /\ IsAlnum(CharAt(summary, q))
                         /\ CharAt(summary, SkipSpace(summary, e2 + 1)) = "-"
         IN  IF twoWords THEN Some(SubSeq(summary, 1, e2))
             ELSE IF CharAt(summary, q) = "-" THEN Some(SubSeq(summary, 1, e1))
             ELSE None

\* str.replace(' ', '-')
RECURSIVE SpacesToHyphens(_)
SpacesToHyphens(text) ==
    IF text = "" THEN ""
    ELSE (IF SubSeq(text, 1, 1) = " " THEN "-" ELSE SubSeq(text, 1, 1))
             \o SpacesToHyphens(SubSeq(text, 2, Len(text)))

\* A Python value used as a condition: None and '' are false.
Truthy(value) == value # None /\ value # Some("")

\* _extract_customer: the given name, else the summary prefix, normalised;
\* re.match raises TypeError for a summary that is None.
_extract_customer(summary, customer_name) ==
    IF Truthy(customer_name)
        THEN [raised |-> FALSE,
              customer |-> Some(SpacesToHyphens(Lower(customer_name[1])))]
    ELSE IF summary = None
        THEN Raises("TypeError: expected string or bytes-like object, got 'NoneType'")
    ELSE LET match == CustomerPrefix(summary[1])
         IN  IF match # None
                 THEN [raised |-> FALSE,
                       customer |-> Some(SpacesToHyphens(Lower(Strip(match[1]))))]
                 ELSE [raised |-> FALSE, customer |-> None]

\* re.search(r'\b' + keyword + r'\b', text_lower) finds the keyword at p.
WholeWordAt(text, p, keyword) ==
    /\ HasAt(text, p, keyword)
    /\ p = 1 \/ ~IsWordChar(CharAt(text, p - 1))
    /\ p + Len(keyword) > Len(text) \/ ~IsWordChar(CharAt(text, p + Len(keyword)))

_extract_technical_keywords(text, technical_keywords) ==
    IF ~Truthy(text) THEN {}
    ELSE LET text_lower == Lower(text[1])
         IN  {keyword \in technical_keywords :
                 \E p \in 1..Len(text_lower) : WholeWordAt(text_lower, p, keyword)}

\* Variant of the labels set that reads the description whatever the number
\* of labels already collected.
CollectLabels_always_reads_description(args) ==
    LET fromSource == IF Truthy(args.source) THEN {Lower(args.source[1])} ELSE {}
        found == _extract_customer(args.summary, args.customer_name)
        fromCustomer == IF Truthy(found.customer) THEN {found.customer[1]} ELSE {}
        labels == fromSource \cup fromCustomer
                      \cup _extract_technical_keywords(args.summary, TECHNICAL_KEYWORDS)
    IN  IF found.raised THEN found
        ELSE [raised |-> FALSE,
              customer |-> found.customer,
              labels |->
                  IF Truthy(args.description)
                      THEN labels \cup _extract_technical_keywords(args.description,
                                                                   TECHNICAL_KEYWORDS)
                      ELSE labels]

\* The set `labels` before it is made a list; customer is kept for the loop.
CollectLabels(args) ==
    LET fromSource == IF Truthy(args.source) THEN {Lower(args.source[1])} ELSE {}
        found == _extract_customer(args.summary, args.customer_name)
        fromCustomer == IF Truthy(found.customer) THEN {found.customer[1]} ELSE {}
        labels == fromSource \cup fromCustomer
                      \cup _extract_technical_keywords(args.summary, TECHNICAL_KEYWORDS)
    IN  IF found.raised THEN found
        ELSE [raised |-> FALSE,
              customer |-> found.customer,
              labels |->
                  IF Cardinality(labels) < args.max_labels /\ Truthy(args.description)
                      THEN labels \cup _extract_technical_keywords(args.description,
                                                                   TECHNICAL_KEYWORDS)
                      ELSE labels]

\* list(labels): a set is iterated in an order the caller cannot choose.
RECURSIVE Orderings(_)
Orderings(set) ==
    IF set = {} THEN {<<>>}
    ELSE UNION {{<<first>> \o rest : rest \in Orderings(set \ {first})} : first \in set}

\* The for loop over labels_list from position k on: the source label goes
\* to the front of priority_labels, the customer label behind it.
RECURSIVE PrioritizeFrom(_, _, _, _, _)
PrioritizeFrom(labels_list, k, lists, source, customer) ==
    IF k > Len(labels_list) THEN lists
    ELSE LET label == labels_list[k]
             priority_labels == lists.priority_labels
         IN  PrioritizeFrom(labels_list, k + 1,
                 IF Truthy(source) /\ label = Lower(source[1])
                     THEN [lists EXCEPT !.priority_labels = <<label>> \o priority_labels]
                 ELSE IF customer # None /\ label = customer[1]
                     THEN IF Len(priority_labels) > 0
                              THEN [lists EXCEPT !.priority_labels =
                                       <<priority_labels[1], label>> \o Tail(priority_labels)]
                              ELSE [lists EXCEPT !.priority_labels =
                                       priority_labels \o <<label>>]
                 ELSE [lists EXCEPT !.other_labels = lists.other_labels \o <<label>>],
                 source, customer)

\* The code points of the characters of the labels, ascending.
CodePointOrder == "-0123456789_abcdefghijklmnopqrstuvwxyz"

CodeRankOf ==
    [ch \in {CharAt(CodePointOrder, k) : k \in 1..Len(CodePointOrder)} |->
        CHOOSE k \in 1..Len(CodePointOrder) : CharAt(CodePointOrder, k) = ch]

CodeRank(ch) == IF ch \in DOMAIN CodeRankOf THEN CodeRankOf[ch] ELSE 0

\* a < b for str
RECURSIVE StrLess(_, _)
StrLess(a, b) ==
    IF b = "" THEN FALSE
    ELSE IF a = "" THEN TRUE
    ELSE IF CharAt(a, 1) # CharAt(b, 1) THEN CodeRank(CharAt(a, 1)) < CodeRank(CharAt(b, 1))
    ELSE StrLess(SubSeq(a, 2, Len(a)), SubSeq(b, 2, Len(b)))

\* list[:n]
SliceTo(list, n) ==
    IF n >= 0
        THEN SubSeq(list, 1, IF n < Len(list) THEN n ELSE Len(list))
        ELSE SubSeq(list, 1, IF Len(list) + n > 0 THEN Len(list) + n ELSE 0)

\* Variant of extract_labels that sorts source and customer in with the
\* technical labels.
extract_labels_sorts_all(args, labels_list, customer) ==
    SliceTo(SortSeq(labels_list, StrLess), args.max_labels)

\* Variant of extract_labels that cuts the technical labels before the
\* priority labels are put in front.
extract_labels_cuts_first(args, labels_list, customer) ==
    LET lists == PrioritizeFrom(labels_list, 1,
                     [priority_labels |-> <<>>, other_labels |-> <<>>],
                     args.source, customer)
    IN  lists.priority_labels
            \o SliceTo(SortSeq(lists.other_labels, StrLess), args.max_labels)

\* extract_labels from `labels_list = list(labels)` on.
extract_labels(args, labels_list, customer) ==
    LET lists == PrioritizeFrom(labels_list, 1,
                     [priority_labels |-> <<>>, other_labels |-> <<>>],
                     args.source, customer)
    IN  SliceTo(lists.priority_labels \o SortSeq(lists.other_labels, StrLess),
                args.max_labels)

\* LabelExtractor().extract_labels(summary, description, customer_name,
\* source, max_labels)
ExtractLabels ==
    /\ label_args # [called |-> FALSE]
    /\ \E collected \in {CollectLabels(label_args)} :
           IF collected.raised
               THEN outcome' = [op |-> "extract_labels"] @@ collected
               ELSE \E labels_list \in Orderings(collected.labels) :
                        outcome' = [op |-> "extract_labels", raised |-> FALSE,
                                    labels |-> extract_labels(label_args, labels_list,
                                                              collected.customer)]
    /\ UNCHANGED <<components, classified, estimatorVars, labelVars, processorVars>>

LabelSummaries ==
    {None, Some(""), Some("nothing here"),
     Some("FedEx - CRDB slave OVC higher than master causing replication failure"),
     Some("Wells Fargo - Azure ACRE deployment timeout"),
     Some("Master-slave replication failure"),
     Some("Redis - crash on upgrade"),
     Some("Azure - azure crash"),
     Some("K8S: TLS/SSL active-active"),
     Some("a b c - d")}

LabelDescriptions == {None, Some(""), Some("ACL and failover, crashes again")}
LabelCustomers == {None, Some("Acme Corp")}
LabelSources == {None, Some("Zendesk")}
MaxLabelsInputs == {0, 1, 3, 5}

LabelInputs ==
    [summary : LabelSummaries, description : LabelDescriptions,
     customer_name : LabelCustomers, source : LabelSources,
     max_labels : MaxLabelsInputs]

InitLabels ==
    /\ label_args \in LabelInputs
    /\ outcome = NoCall
    /\ components = NotEstimated
    /\ classified = <<NoClassification, NoClassification>>
    /\ EstimatorConstructed
    /\ ProcessorConstructed

NextLabels == ExtractLabels

SpecLabels == InitLabels /\ [][NextLabels]_vars

---------------------------------------------------------------------------
(* Claims about LabelExtractor, under SpecLabels.                          *)

LabelsReturned == outcome.op = "extract_labels" /\ ~outcome.raised

\* C15: for every summary, description, customer_name, source and
\* max_labels >= 0 the list returned by extract_labels has no duplicate
\* entries and at most max_labels entries.
C15_LabelsUniqueAndBounded ==
    (LabelsReturned /\ label_args.max_labels >= 0) =>
        /\ Len(outcome.labels) <= label_args.max_labels
        /\ \A i, j \in 1..Len(outcome.labels) :
               outcome.labels[i] = outcome.labels[j] => i = j

\* Five labels were collected for a call with max_labels = 3, and three
\* distinct ones came back.
C15_Witness ==
    /\ LabelsReturned
    /\ label_args.max_labels = 3
    /\ Cardinality(CollectLabels(label_args).labels) = 5
    /\ Cardinality({outcome.labels[i] : i \in 1..Len(outcome.labels)}) = 3

\* The source tag, the customer tag and the technical tags of the call, as
\* the claims name them.
SourceTag ==
    IF Truthy(label_args.source) THEN <<Lower(label_args.source[1])>> ELSE <<>>

CustomerTag ==
    LET found == _extract_customer(label_args.summary, label_args.customer_name)
    IN  IF ~found.raised /\ Truthy(found.customer)
               /\ <<found.customer[1]>> # SourceTag
            THEN <<found.customer[1]>> ELSE <<>>

TechnicalTags ==
    CollectLabels(label_args).labels
        \ ({SourceTag[i] : i \in 1..Len(SourceTag)}
               \cup {CustomerTag[i] : i \in 1..Len(CustomerTag)})

\* The technical tags in ascending alphabetical order.
TechnicalTagsAscending ==
    CHOOSE tags \in Orderings(TechnicalTags) :
        \A i \in 1..(Len(tags) - 1) : StrLess(tags[i], tags[i + 1])

C17_NoBlockListedLabel ==
    LabelsReturned =>
        \A i \in 1..Len(outcome.labels) : outcome.labels[i] \notin EXCLUDED_KEYWORDS

\* The part of C17 that the code keeps: a block-listed term is never
\* returned as a technical tag, only as the customer or source tag, and the
\* FedEx example called with its summary alone has none.
C17_NoBlockListedTechnicalTag ==
    LabelsReturned =>
        /\ \A i \in 1..Len(outcome.labels) :
               outcome.labels[i] \in EXCLUDED_KEYWORDS =>
                   <<outcome.labels[i]>> \in {SourceTag, CustomerTag}
        /\ ( /\ label_args.summary =
                  Some("FedEx - CRDB slave OVC higher than master causing replication failure")
             /\ ~Truthy(label_args.description)
             /\ label_args.customer_name = None
             /\ label_args.source = None
             /\ label_args.max_labels = 5 )
           => /\ {"fedex", "crdb", "ovc"} \subseteq
                     {outcome.labels[i] : i \in 1..Len(outcome.labels)}
              /\ \A i \in 1..Len(outcome.labels) :
                     outcome.labels[i] \notin {"replication", "master", "slave"}

\* What C18 says of a call that has returned: nothing matching gives the
\* empty list, a customer alone gives the customer tag alone.
UnmatchedTextGivesShortList ==
    /\ (SourceTag = <<>> /\ CustomerTag = <<>> /\ TechnicalTags = {})
           => outcome.labels = <<>>
    /\ ( /\ SourceTag = <<>> /\ CustomerTag # <<>> /\ TechnicalTags = {}
         /\ label_args.max_labels >= 1 )
           => outcome.labels = CustomerTag

\* C18: extract_labels never fails: for any summary and description, empty
\* or absent text and text without keyword or customer prefix included, it
\* returns a list, empty when nothing matches and holding only the customer
\* tag when only a customer is found.
C18_ExtractLabelsNeverFails ==
    outcome.op = "extract_labels" =>
        /\ ~outcome.raised
        /\ UnmatchedTextGivesShortList

\* The part of C18 that the code keeps: with a summary that is a string, or
\* with a customer name given, the call returns.
C18_ReturnsForStringSummary ==
    ( /\ outcome.op = "extract_labels"
      /\ label_args.summary # None \/ Truthy(label_args.customer_name) )
    => /\ ~outcome.raised
       /\ UnmatchedTextGivesShortList

---------------------------------------------------------------------------
(* JiraImpactScoreProcessor: batch scoring of a Jira Excel export.          *)

\* The values a sheet cell can hold once read by pandas: an integer, a
\* float (in thousandths), NaN for an empty cell, or text.
IntCell(n) == [int |-> n]
FloatCell(thousandths) == [float |-> thousandths]
NaN == [nan |-> TRUE]
TextCell(s) == [str |-> s]

COLUMN_MAPPINGS ==
    << <<"jira", <<"Jira", "jira", "Jira ID", "Issue Key", "Key">> >>,
       <<"last_update", <<"Last update", "Last Update", "Updated", "Last Updated">> >>,
       <<"impact_severity", <<"Impact & Severity\nMax 38", "Impact & Severity",
                              "Severity", "Impact">> >>,
       <<"customer_arr", <<"Customer ARR\nMax 15", "Customer ARR", "ARR",
                           "Customer Value">> >>,
       <<"sla_breach", <<"SLA Breach\nMax 8", "SLA Breach", "SLA">> >>,
       <<"frequency", <<"Frequency\nMax 16", "Frequency", "Occurrences">> >>,
       <<"workaround", <<"Workaround\nMax 15", "Workaround">> >>,
       <<"rca_action_item", <<"RCA Action Item\nMax 8", "RCA Action Item", "RCA",
                              "RCA AI">> >>,
       <<"support_multiplier", <<"Support Multiplier\n(optional) 0-15%",
                                 "Support Multiplier", "CloudOps Multiplier">> >>,
       <<"account_multiplier", <<"Account Multiplier\n(optional) 0-15%",
                                 "Account Multiplier">> >>,
       <<"person", <<"Person", "Assignee", "Owner">> >> >>

\* _find_column: the first column of the sheet that is one of the names
\* COLUMN_MAPPINGS lists for standard_name, None when there is none.
_find_column(columns, standard_name) ==
    LET possible_names ==
            IF HasKey(COLUMN_MAPPINGS, standard_name)
                THEN Lookup(COLUMN_MAPPINGS, standard_name) ELSE <<>>
        hits == {k \in 1..Len(columns) :
                     \E j \in 1..Len(possible_names) : columns[k] = possible_names[j]}
    IN  IF hits = {} THEN None
        ELSE Some(columns[CHOOSE k \in hits : \A h \in hits : k <= h])

\* The column_map of _normalize_columns, applied to one column: the standard
\* name whose _find_column is this column (the last such key if several),
\* the column's own name when there is none.
column_map(columns, col) ==
    LET keys == {k \in 1..Len(COLUMN_MAPPINGS) :
                     /\ col # ""
                     /\ \E j \in 1..Len(COLUMN_MAPPINGS[k][2]) :
                            col = COLUMN_MAPPINGS[k][2][j]
                     /\ _find_column(columns, COLUMN_MAPPINGS[k][1]) = Some(col)}
    IN  IF keys = {} THEN col
        ELSE COLUMN_MAPPINGS[CHOOSE k \in keys : \A h \in keys : h <= k][1]

\* _normalize_columns: self.df.rename(columns=column_map), a new frame.
_normalize_columns(frame) ==
    [frame EXCEPT !.columns =
        [k \in 1..Len(frame.columns) |-> column_map(frame.columns, frame.columns[k])]]

numeric_columns ==
    <<"impact_severity", "customer_arr", "sla_breach", "frequency", "workaround",
      "rca_action_item", "support_multiplier", "account_multiplier">>

\* df[col] = df[col].fillna(0) for every numeric column the frame has.
FillNumericColumns(frame) ==
    [frame EXCEPT !.rows =
        [i \in 1..Len(frame.rows) |->
            [k \in 1..Len(frame.columns) |->
                IF /\ \E j \in 1..Len(numeric_columns) :
                          frame.columns[k] = numeric_columns[j]
                   /\ frame.rows[i][k] = NaN
                    THEN IntCell(0) ELSE frame.rows[i][k]]]]

\* row.get(name, 0): the cell of the column called name, 0 when the frame
\* has no such column, the Series of the cells when several columns are
\* called name.
RowGet(columns, row, name) ==
    LET at == {k \in 1..Len(columns) : columns[k] = name}
    IN  IF at = {} THEN IntCell(0)
        ELSE IF Cardinality(at) = 1 THEN row[CHOOSE k \in at : TRUE]
        ELSE [series |-> at]

Converted(value) == [raised |-> FALSE, value |-> value]

\* A string of one or more decimal digits.
IsDigits(s) == s # "" /\ \A i \in 1..Len(s) : IsDigit(CharAt(s, i))

\* s without a leading sign, and the sign.
Unsigned(s) == IF CharAt(s, 1) \in {"+", "-"} THEN SubSeq(s, 2, Len(s)) ELSE s
SignOf(s) == IF CharAt(s, 1) = "-" THEN -1 ELSE 1

\* int(x): an integer as it is, a float truncated toward zero, a string
\* parsed as a signed decimal integer; ValueError for NaN and any other
\* string, TypeError for a Series of several cells.
PyInt(cell) ==
    CASE "int" \in DOMAIN cell -> Converted(cell.int)
      [] "float" \in DOMAIN cell ->
             Converted(IF cell.float >= 0 THEN cell.float \div 1000
                       ELSE -((-cell.float) \div 1000))
      [] "nan" \in DOMAIN cell -> Raises("ValueError")
      [] "str" \in DOMAIN cell ->
             LET s == Strip(cell.str)
             IN  IF IsDigits(Unsigned(s))
                     THEN Converted(SignOf(s) * ParseInt(Unsigned(s)))
                     ELSE Raises("ValueError")
      [] "series" \in DOMAIN cell -> Raises("TypeError")

\* The position of the first '.' of s, 0 when it has none.
PointAt(s) ==
    IF \E i \in 1..Len(s) : CharAt(s, i) = "."
        THEN CHOOSE i \in 1..Len(s) :
                 CharAt(s, i) = "." /\ \A j \in 1..(i - 1) : CharAt(s, j) # "."
        ELSE 0

\* The value, in thousandths, of the fraction digits (at most three).
FractionThousandths(digits) ==
    CASE Len(digits) = 0 -> 0
      [] Len(digits) = 1 -> 100 * ParseInt(digits)
      [] Len(digits) = 2 -> 10 * ParseInt(digits)
      [] Len(digits) = 3 -> ParseInt(digits)

\* float(x), in thousandths: a number as it is, a string parsed as a signed
\* decimal with digits before or after the point (the sheets considered here
\* hold no exponent and at most three fraction digits); ValueError for a
\* string that is no number, TypeError for a Series.  fillna(0) has left no
\* NaN in the columns this is applied to.
PyFloat(cell) ==
    CASE "int" \in DOMAIN cell -> Converted(1000 * cell.int)
      [] "float" \in DOMAIN cell -> Converted(cell.float)
      [] "str" \in DOMAIN cell ->
             LET s == Unsigned(Strip(cell.str))
                 p == PointAt(s)
                 whole == SubSeq(s, 1, p - 1)
                 fraction == SubSeq(s, p + 1, Len(s))
             IN  IF IsDigits(s)
                     THEN Converted(SignOf(Strip(cell.str)) * 1000 * ParseInt(s))
                 ELSE IF /\ p > 0
                         /\ whole = "" \/ IsDigits(whole)
                         /\ fraction = "" \/ IsDigits(fraction)
                         /\ whole # "" \/ fraction # ""
                         /\ Len(fraction) <= 3
                     THEN Converted(SignOf(Strip(cell.str))
                                      * (1000 * ParseInt(whole)
                                           + FractionThousandths(fraction)))
                 ELSE Raises("ValueError")
      [] "series" \in DOMAIN cell -> Raises("TypeError")

\* The arguments of ImpactScoreComponents(...) in the order they are
\* evaluated: the six int(...) and the two float(...).
ComponentConversions(columns, row) ==
    [j \in 1..8 |->
        IF j <= 6 THEN PyInt(RowGet(columns, row, numeric_columns[j]))
        ELSE PyFloat(RowGet(columns, row, numeric_columns[j]))]

\* Some conversion of the row raises, so the except branch is taken.
RowRaises(columns, row) ==
    \E j \in 1..8 : ComponentConversions(columns, row)[j].raised

\* The ImpactScoreComponents of a row none of whose conversions raises.
RowComponents(columns, row) ==
    LET converted == ComponentConversions(columns, row)
    IN  [impact_severity |-> converted[1].value,
         customer_arr |-> converted[2].value,
         sla_breach |-> converted[3].value,
         frequency |-> converted[4].value,
         workaround |-> converted[5].value,
         rca_action_item |-> converted[6].value,
         support_multiplier |-> converted[7].value,
         account_multiplier |-> converted[8].value]

\* The signs the double's error can have when the row is scored.
RowFloatErrors(columns, row) ==
    IF RowRaises(columns, row) THEN {0}
    ELSE FloatErrors(RowComponents(columns, row))

\* One turn of the loop over df.iterrows(): the value appended to
\* impact_scores, the score in tenths or 0 from the except branch.
ScoreOfRow(columns, row, fp) ==
    IF RowRaises(columns, row) THEN 0
    ELSE _calculate_impact_score(RowComponents(columns, row), fp)

\* The frame the loop of calculate_scores runs over: column names
\* normalised, numeric columns filled.
NormalizedFrame(frame) ==
    CHOOSE filled \in {FillNumericColumns(renamed) :
                          renamed \in {_normalize_columns(frame)}} : TRUE

\* The choices of error sign for the first n rows of a normalised frame,
\* one for each row.
RECURSIVE RoundingChoicesUpTo(_, _)
RoundingChoicesUpTo(normalized, n) ==
    IF n = 0 THEN {<<>>}
    ELSE {Append(fps, fp) :
              fps \in RoundingChoicesUpTo(normalized, n - 1),
              fp \in RowFloatErrors(normalized.columns, normalized.rows[n])}

\* The choices of error sign, one for each row of the frame.
RoundingChoices(frame) ==
    UNION {RoundingChoicesUpTo(normalized, Len(normalized.rows)) :
               normalized \in {NormalizedFrame(frame)}}

\* The frame with the columns calculated_impact_score and priority_level.
WithScores(normalized, impact_scores) ==
    [loaded |-> TRUE,
     columns |-> normalized.columns,
     rows |-> normalized.rows,
     calculated_impact_score |-> impact_scores,
     priority_level |->
         [i \in 1..Len(normalized.rows) |-> _classify_priority(impact_scores[i])]]

\* Variant of calculate_scores in which the first failing row ends the
\* scoring: that row and every row after it are recorded with 0.
calculate_scores_stops_at_failure(frame, fps) ==
    CHOOSE scored \in
        { WithScores(normalized,
              [i \in 1..Len(normalized.rows) |->
                  IF \E j \in 1..i : RowRaises(normalized.columns, normalized.rows[j])
                      THEN 0
                      ELSE ScoreOfRow(normalized.columns, normalized.rows[i], fps[i])]) :
          normalized \in {NormalizedFrame(frame)} } : TRUE

\* calculate_scores on a loaded frame: the frame with normalised column
\* names and filled numeric columns, the column calculated_impact_score (one
\* value per row, in tenths) and the column priority_level.
calculate_scores(frame, fps) ==
    CHOOSE scored \in
        { WithScores(normalized,
              [i \in 1..Len(normalized.rows) |->
                  ScoreOfRow(normalized.columns, normalized.rows[i], fps[i])]) :
          normalized \in {NormalizedFrame(frame)} } : TRUE

\* load_data: self.df is set when the sheet can be read, else the error of
\* the except branch taken is raised and self.df is left as it was.
ProcessorLoadData ==
    /\ IF workbook.readable
           THEN /\ df' = [loaded |-> TRUE, columns |-> workbook.columns,
                          rows |-> workbook.rows]
                /\ outcome' = [op |-> "JiraImpactScoreProcessor.load_data",
                               raised |-> FALSE]
           ELSE /\ df' = df
                /\ \E error \in {"FileNotFoundError: Excel file not found",
                                 "Exception: Error loading Excel file"} :
                       outcome' = [op |-> "JiraImpactScoreProcessor.load_data"]
                                      @@ Raises(error)
    /\ UNCHANGED <<components, classified, estimatorVars, labelVars,
                 workbook, processed_df>>

\* calculate_scores: ValueError before load_data, else self.processed_df is
\* the scored frame; self.df itself is not modified.
CalculateScores ==
    /\ IF ~df.loaded
           THEN /\ processed_df' = processed_df
                /\ outcome' = [op |-> "JiraImpactScoreProcessor.calculate_scores"]
                                  @@ Raises("ValueError: No data loaded. Call load_data() first.")
           ELSE /\ \E fps \in RoundingChoices(df) :
                       processed_df' = calculate_scores(df, fps)
                /\ outcome' = [op |-> "JiraImpactScoreProcessor.calculate_scores",
                               raised |-> FALSE]
    /\ UNCHANGED <<components, classified, estimatorVars, labelVars, workbook, df>>

---------------------------------------------------------------------------
(* The sheets the batch processor is run on.                               *)

\* The largest number of tickets in a sheet.
MaxRows == 3

\* The header row of the export template, and one of a hand-made sheet that
\* has both an 'Impact' and a 'Severity' column and neither workaround nor
\* multipliers; each header with the field of the ticket it shows.
TemplateLayout ==
    << <<"Jira", "jira">>,
       <<"Impact & Severity\nMax 38", "impact_severity">>,
       <<"Customer ARR\nMax 15", "customer_arr">>,
       <<"SLA Breach\nMax 8", "sla_breach">>,
       <<"Frequency\nMax 16", "frequency">>,
       <<"Workaround\nMax 15", "workaround">>,
       <<"RCA Action Item\nMax 8", "rca_action_item">>,
       <<"Support Multiplier\n(optional) 0-15%", "support_multiplier">>,
       <<"Account Multiplier\n(optional) 0-15%", "account_multiplier">> >>

ShortLayout ==
    << <<"Key", "jira">>,
       <<"ARR", "customer_arr">>,
       <<"Impact", "impact_severity">>,
       <<"Severity", "note">>,
       <<"SLA", "sla_breach">>,
       <<"Occurrences", "frequency">>,
       <<"RCA", "rca_action_item">> >>

SheetLayouts == {TemplateLayout, ShortLayout}

\* Tickets: every component at its maximum; a product that lies on a
\* rounding tie; an empty row; a text where a number is expected; a
\* multiplier written as a percentage; fractions, digits as text and a
\* severity above 38.
SheetTickets ==
    LET
        PlainTicket ==
            [jira |-> TextCell("RED-1"), note |-> TextCell("High"),
             impact_severity |-> IntCell(38), customer_arr |-> IntCell(15),
             sla_breach |-> IntCell(8), frequency |-> IntCell(16),
             workaround |-> IntCell(15), rca_action_item |-> IntCell(8),
             support_multiplier |-> IntCell(0), account_multiplier |-> IntCell(0)]

        TieTicket ==
            [jira |-> TextCell("RED-2"), note |-> NaN,
             impact_severity |-> IntCell(30), customer_arr |-> IntCell(15),
             sla_breach |-> IntCell(0), frequency |-> IntCell(0),
             workaround |-> IntCell(5), rca_action_item |-> IntCell(0),
             support_multiplier |-> FloatCell(35), account_multiplier |-> NaN]

        EmptyTicket ==
            [jira |-> NaN, note |-> NaN,
             impact_severity |-> NaN, customer_arr |-> NaN,
             sla_breach |-> NaN, frequency |-> NaN,
             workaround |-> NaN, rca_action_item |-> NaN,
             support_multiplier |-> NaN, account_multiplier |-> NaN]

        TextTicket ==
            [jira |-> TextCell("RED-4"), note |-> TextCell("Low"),
             impact_severity |-> TextCell("abc"), customer_arr |-> IntCell(10),
             sla_breach |-> IntCell(8), frequency |-> IntCell(8),
             workaround |-> IntCell(10), rca_action_item |-> IntCell(8),
             support_multiplier |-> FloatCell(150), account_multiplier |-> FloatCell(150)]

        PercentTicket ==
            [jira |-> TextCell("RED-5"), note |-> TextCell("Medium"),
             impact_severity |-> IntCell(22), customer_arr |-> IntCell(13),
             sla_breach |-> IntCell(0), frequency |-> IntCell(16),
             workaround |-> IntCell(15), rca_action_item |-> IntCell(0),
             support_multiplier |-> TextCell("15%"), account_multiplier |-> IntCell(0)]

        FractionTicket ==
            [jira |-> TextCell("RED-6"), note |-> TextCell("Critical"),
             impact_severity |-> FloatCell(39900), customer_arr |-> TextCell(" 15"),
             sla_breach |-> NaN, frequency |-> IntCell(16),
             workaround |-> IntCell(10), rca_action_item |-> IntCell(8),
             support_multiplier |-> FloatCell(150), account_multiplier |-> TextCell("0.1")]
    IN  {PlainTicket, TieTicket, EmptyTicket, TextTicket, PercentTicket,
         FractionTicket}

\* The sheet that shows the tickets of batch under the headers of layout.
Sheet(layout, batch) ==
    [readable |-> TRUE,
     columns |-> [k \in 1..Len(layout) |-> layout[k][1]],
     rows |-> [i \in 1..Len(batch) |->
                  [k \in 1..Len(layout) |-> batch[i][layout[k][2]]]]]

Batches == UNION {[1..n -> SheetTickets] : n \in 0..MaxRows}

Workbooks ==
    {Unreadable} \cup {Sheet(layout, batch) : layout \in SheetLayouts, batch \in Batches}

\* A processor constructed on one of the workbooks.
InitProcessor ==
    /\ workbook \in Workbooks
    /\ df = NoDf
    /\ processed_df = NoDf
    /\ outcome = NoCall
    /\ components = NotEstimated
    /\ classified = <<NoClassification, NoClassification>>
    /\ NoLabelCall
    /\ EstimatorConstructed

NextProcessor ==
    \/ ProcessorLoadData
    \/ CalculateScores

SpecProcessor == InitProcessor /\ [][NextProcessor]_vars

---------------------------------------------------------------------------
(* Claims about the batch processor, checked under SpecProcessor.          *)

\* The rows of the loaded sheet whose scoring raises.
FailingRows(frame) ==
    UNION { {i \in 1..Len(frame.rows) :
                RowRaises(normalized.columns, normalized.rows[i])} :
            normalized \in {NormalizedFrame(frame)} }

\* A list without its k-th entry, and a frame without its k-th row.
WithoutEntry(list, k) == SubSeq(list, 1, k - 1) \o SubSeq(list, k + 1, Len(list))
WithoutRow(frame, k) == [frame EXCEPT !.rows = WithoutEntry(frame.rows, k)]
OnlyRow(frame, k) == [frame EXCEPT !.rows = <<frame.rows[k]>>]

\* The score and priority columns calculate_scores can give for a frame.
BatchResults(frame) ==
    {<<scored.calculated_impact_score, scored.priority_level>> :
        scored \in {calculate_scores(frame, fps) : fps \in RoundingChoices(frame)}}

\* C19: once calculate_scores has returned, the result has one calculated
\* score and one priority level for each row of the loaded sheet; a row
\* whose scoring raised is recorded with score 0 and priority MINIMAL; the
\* scores and priorities of the other rows are a result of the batch without
\* the failing row, and the score and priority of each row are a result of
\* the batch that holds that row alone.
C19_FailingRowAbortsOnlyThatRow ==
    processed_df.loaded =>
        LET scores == processed_df.calculated_impact_score
            levels == processed_df.priority_level
        IN  /\ Len(scores) = Len(df.rows)
            /\ Len(levels) = Len(df.rows)
            /\ Len(processed_df.rows) = Len(df.rows)
            /\ \A k \in FailingRows(df) :
                   /\ scores[k] = 0
                   /\ levels[k] = "MINIMAL"
                   /\ <<WithoutEntry(scores, k), WithoutEntry(levels, k)>>
                          \in BatchResults(WithoutRow(df, k))
            /\ \A i \in 1..Len(df.rows) :
                   << <<scores[i]>>, <<levels[i]>> >> \in BatchResults(OnlyRow(df, i))

\* A batch of three whose second row fails between two rows that are scored
\* above 0 has been processed.
C19_Witness ==
    /\ processed_df.loaded
    /\ Len(df.rows) = 3
    /\ FailingRows(df) = {2}
    /\ processed_df.calculated_impact_score[1] > 0
    /\ processed_df.calculated_impact_score[2] = 0
    /\ processed_df.calculated_impact_score[3] > 0

---------------------------------------------------------------------------
(* Further claims about the estimator cascades, under SpecIntelligent.     *)

\* The description or summary, as written, names another ticket (RED-<digits>).
TicketIdReferenced == TicketReferenceFound(DescAndSummary(ticket_data))

\* No 'N times' / 'N occurrences' pattern with N >= 2 and no frequency
\* keyword of either list is in the text.
NoCountAndNoFrequencyKeyword ==
    /\ MentionedCount(TicketText) < 2
    /\ ~TextHasAny({"multiple", "several", "recurring", "repeated", "again",
                    "reoccur", "first time", "one time", "single", "once"})

\* C21: when no numeric pattern with N >= 2 and no frequency keyword matches,
\* a description or summary that references another ticket ID (RED-12345)
\* makes estimate_frequency return 8, as a 'similar to' / 'same as' phrase
\* does.
C21_TicketReferenceGivesEight ==
    ( /\ outcome.op = "estimate_frequency"
      /\ NoCountAndNoFrequencyKeyword
      /\ TicketIdReferenced \/ TextHasAny({"similar to", "same as"}) )
    => /\ ~outcome.raised
       /\ outcome.score = 8

\* The part of C21 that the code keeps: the phrases 'similar to' and 'same
\* as' give 8; a ticket ID alone gives the default 0.
C21_OnlyThePhrasesGiveEight ==
    ( /\ outcome.op = "estimate_frequency"
      /\ NoCountAndNoFrequencyKeyword )
    => /\ ~outcome.raised
       /\ outcome.score = IF TextHasAny({"similar to", "same as"}) THEN 8 ELSE 0

\* The text estimate_workaround searches: workaround field, description and
\* summary, lowercased; and the workaround field alone.
WorkaroundCombined ==
    Lower(OrEmpty(Get(ticket_data, "workaround")) \o " " \o DescAndSummary(ticket_data))

WorkaroundField == OrEmpty(Get(ticket_data, "workaround"))

WorkaroundHasAny(words) == \E word \in words : Contains(WorkaroundCombined, word)

WorkaroundFieldPopulated ==
    /\ Strip(WorkaroundField) # ""
    /\ Lower(WorkaroundField) \notin {"nan", "none", "n/a"}

\* The score of a mentioned workaround: 12 on an impact keyword, else 10 on
\* one of the given complexity keywords, else 5.
MentionedWorkaroundScore(complexity) ==
    IF ContainsAny(WorkaroundCombined, tables.WORKAROUND_KEYWORDS.with_impact) THEN 12
    ELSE IF WorkaroundHasAny(complexity) THEN 10
    ELSE 5

\* The score of a populated workaround field: 12 on an impact keyword in
\* the field, else 10.
WorkaroundFieldScore ==
    IF ContainsAny(Lower(WorkaroundField), tables.WORKAROUND_KEYWORDS.with_impact)
        THEN 12 ELSE 10

\* C22: estimate_workaround is first-match-wins: a 'no workaround' or
\* 'requires new version' phrasing gives 15 even when a workaround is
\* described or the workaround field is populated; else a required fix or
\* patch with no mention of 'workaround' gives 15; else a mentioned workaround
\* gives 12 on an impact keyword, else 10 on a complexity keyword (manual,
\* multiple steps, requires), else 5; else a populated workaround field gives
\* 12 on an impact keyword and 10 otherwise; else 10.
C22_WorkaroundCascade ==
    outcome.op = "estimate_workaround" =>
        /\ ~outcome.raised
        /\ outcome.score =
               IF WorkaroundHasAny({"no workaround", "cannot", "impossible",
                                    "requires fix", "needs patch",
                                    "requires version", "requires new version"})
                   THEN 15
               ELSE IF WorkaroundHasAny({"fix", "patch"})
                         /\ ~WorkaroundHasAny({"workaround"})
                   THEN 15
               ELSE IF WorkaroundHasAny({"workaround", "use instead", "alternative"})
                   THEN MentionedWorkaroundScore({"manual", "multiple steps", "requires"})
               ELSE IF WorkaroundFieldPopulated THEN WorkaroundFieldScore
               ELSE 10

\* The cascade of C22 as the code has it: 'requires version' belongs to the
\* fix-or-patch step, which a mention of 'workaround' switches off, and
\* 'need to' is a complexity keyword as well.
C22_WorkaroundCascadeOfTheCode ==
    outcome.op = "estimate_workaround" =>
        /\ ~outcome.raised
        /\ outcome.score =
               IF WorkaroundHasAny({"no workaround", "cannot", "impossible",
                                    "requires fix", "needs patch"})
                   THEN 15
               ELSE IF WorkaroundHasAny({"fix", "patch", "requires version"})
                         /\ ~WorkaroundHasAny({"workaround"})
                   THEN 15
               ELSE IF WorkaroundHasAny({"workaround", "use instead", "alternative"})
                   THEN MentionedWorkaroundScore({"manual", "multiple steps",
                                                  "requires", "need to"})
               ELSE IF WorkaroundFieldPopulated THEN WorkaroundFieldScore
               ELSE 10

\* The RCA field without surrounding whitespace is longer than 50 characters.
RcaFieldLong == Len(Strip(OrEmpty(Get(ticket_data, "rca")))) > 50

\* One of the keywords occurs in RCA field, description and summary.
RcaKeywordFound(keywords) ==
    \E keyword \in keywords :
        Contains(Lower(OrEmpty(Get(ticket_data, "rca")) \o " "
                         \o DescAndSummary(ticket_data)), keyword)

\* A label contains 'rca' or 'postmortem'.
RcaLabelFound ==
    \E k \in 1..Len(LabelsOf(ticket_data)) :
        \/ Contains(Lower(LabelsOf(ticket_data)[k]), "rca")
        \/ Contains(Lower(LabelsOf(ticket_data)[k]), "postmortem")

\* C23: estimate_rca_action_item returns 0 or 8, and 8 if and only if the
\* stripped RCA field is longer than 50 characters, or an RCA keyword (rca,
\* root cause, action item, postmortem) occurs in the combined text, or a
\* label contains 'rca' or 'postmortem'.
C23_RcaEightIffIndicator ==
    outcome.op = "estimate_rca_action_item" =>
        /\ ~outcome.raised
        /\ outcome.score \in {0, 8}
        /\ outcome.score = 8 <=>
               \/ RcaFieldLong
               \/ RcaKeywordFound({"rca", "root cause", "action item", "postmortem"})
               \/ RcaLabelFound

\* C23 with the keywords of the code, which has 'post mortem' as well.
C23_RcaEightIffIndicatorOfTheCode ==
    outcome.op = "estimate_rca_action_item" =>
        /\ ~outcome.raised
        /\ outcome.score \in {0, 8}
        /\ outcome.score = 8 <=>
               \/ RcaFieldLong
               \/ RcaKeywordFound({"rca", "root cause", "action item",
                                   "post mortem", "postmortem"})
               \/ RcaLabelFound

\* A VIP customer is named in the customer name or in the text.
VipCustomerFound ==
    \E k \in 1..Len(tables.VIP_CUSTOMERS) :
        \/ Contains(Lower(OrEmpty(Get(ticket_data, "customer_name"))),
                    tables.VIP_CUSTOMERS[k])
        \/ Contains(TicketText, tables.VIP_CUSTOMERS[k])

\* A label contains 'enterprise' or 'premium'.
EnterpriseLabelFound ==
    \E k \in 1..Len(LabelsOf(ticket_data)) :
        \/ Contains(Lower(LabelsOf(ticket_data)[k]), "enterprise")
        \/ Contains(Lower(LabelsOf(ticket_data)[k]), "premium")

\* C24: estimate_customer_arr is first-match-wins: a VIP customer in the
\* customer name or text gives 15; else a 'multiple customers' / 'several
\* customers' phrase gives 8, also when an enterprise or premium label is
\* present; else such a label gives 13; else an essentials / standard phrase
\* gives 10; else any customer name or the word 'customer' gives 10; else 0.
C24_CustomerArrCascade ==
    outcome.op = "estimate_customer_arr" =>
        /\ ~outcome.raised
        /\ outcome.score =
               IF VipCustomerFound THEN 15
               ELSE IF TextHasAny({"multiple customers", "several customers"}) THEN 8
               ELSE IF EnterpriseLabelFound THEN 13
               ELSE IF TextHasAny({"essentials", "standard"}) THEN 10
               ELSE IF OrEmpty(Get(ticket_data, "customer_name")) # ""
                         \/ TextHasAny({"customer"})
                   THEN 10
               ELSE 0

\* estimate_customer_arr has returned 8 for a ticket that carries an
\* enterprise or premium label and names several customers.
C24_Witness ==
    /\ outcome.op = "estimate_customer_arr"
    /\ ~outcome.raised
    /\ outcome.score = 8
    /\ EnterpriseLabelFound
    /\ ~VipCustomerFound

\* ---------------------------------------------------------------------
\* Further claims about extract_labels, under SpecLabels
\* ---------------------------------------------------------------------

\* The call extract_labels(summary) of the module-level function: every
\* other argument has its default.
CalledWithSummaryOnly(summary) ==
    /\ LabelsReturned
    /\ label_args.summary = Some(summary)
    /\ label_args.description = Some("")
    /\ label_args.customer_name = None
    /\ label_args.source = None
    /\ label_args.max_labels = 5

\* C25: as the docstring of the module-level extract_labels has it,
\* extract_labels("FedEx - CRDB slave OVC higher than master causing
\* replication failure") returns ['crdb', 'fedex', 'ovc'] in that order and
\* extract_labels("Wells Fargo - Azure ACRE deployment timeout") returns
\* ['acre', 'azure', 'timeout', 'wells-fargo'] in that order.
C25_DocstringExamples ==
    /\ CalledWithSummaryOnly(
           "FedEx - CRDB slave OVC higher than master causing replication failure")
           => outcome.labels = <<"crdb", "fedex", "ovc">>
    /\ CalledWithSummaryOnly("Wells Fargo - Azure ACRE deployment timeout")
           => outcome.labels = <<"acre", "azure", "timeout", "wells-fargo">>

\* What the code returns for the two examples: the customer tag comes first.
C25_ExamplesOfTheCode ==
    /\ CalledWithSummaryOnly(
           "FedEx - CRDB slave OVC higher than master causing replication failure")
           => outcome.labels = <<"fedex", "crdb", "ovc">>
    /\ CalledWithSummaryOnly("Wells Fargo - Azure ACRE deployment timeout")
           => outcome.labels = <<"wells-fargo", "acre", "azure", "timeout">>

\* The lists a call with arguments args can return, one for each iteration
\* order of the labels set.
ListsReturnedFor(args) ==
    LET collected == CollectLabels(args)
    IN  {extract_labels(args, labels_list, collected.customer) :
             labels_list \in Orderings(collected.labels)}

\* Source tag, customer tag and the technical keywords of the summary: the
\* labels set before the description is looked at.
LabelsBeforeDescription ==
    CollectLabels([label_args EXCEPT !.description = None]).labels

\* The technical tags of summary and description together, ascending.
MergedTagsAscending ==
    LET merged == (LabelsBeforeDescription
                       \cup _extract_technical_keywords(label_args.description,
                                                        TECHNICAL_KEYWORDS))
                      \ ({SourceTag[i] : i \in 1..Len(SourceTag)}
                             \cup {CustomerTag[i] : i \in 1..Len(CustomerTag)})
    IN  CHOOSE tags \in Orderings(merged) :
            \A i \in 1..(Len(tags) - 1) : StrLess(tags[i], tags[i + 1])

\* C26: when source tag, customer tag and the technical keywords of the
\* summary already number at least max_labels, the description has no
\* influence: the same call with any other description returns the same
\* list. When they number fewer than max_labels, the keywords of the
\* description are merged with those of the summary before the sort and
\* the cut to max_labels.
C26_DescriptionOnlyWhenNeeded ==
    LabelsReturned =>
        IF Cardinality(LabelsBeforeDescription) >= label_args.max_labels
            THEN \A description \in LabelDescriptions :
                     ListsReturnedFor([label_args EXCEPT !.description = description])
                         = {outcome.labels}
            ELSE outcome.labels =
                     SliceTo(SourceTag \o CustomerTag \o MergedTagsAscending,
                             label_args.max_labels)

\* Four labels from the summary and max_labels 3: the description, whose
\* keyword acl sorts before acre, is not read; the same call with
\* max_labels 5 merges acl and failover in before the cut.
C26_Witness ==
    /\ LabelsReturned
    /\ label_args.description = Some("ACL and failover, crashes again")
    /\ label_args.max_labels = 3
    /\ LabelsBeforeDescription = {"wells-fargo", "acre", "azure", "timeout"}
    /\ outcome.labels = <<"wells-fargo", "acre", "azure">>
    /\ ListsReturnedFor([label_args EXCEPT !.max_labels = 5])
           = {<<"wells-fargo", "acl", "acre", "azure", "failover">>}

---------------------------------------------------------------------------
(* The reporting methods of JiraImpactScoreProcessor.  Scores are in       *)
(* tenths of a point, the cells of the sheet and the tolerance in          *)
(* thousandths.                                                            *)

NoProcessedData == "ValueError: No processed data. Call calculate_scores() first."

PriorityLevels == <<"CRITICAL", "HIGH", "MEDIUM", "LOW", "MINIMAL">>

IntLess(a, b) == a < b

\* The positions 1..n, in order.
Positions(n) == [i \in 1..n |-> i]

RECURSIVE SumUpTo(_, _)
SumUpTo(scores, n) == IF n = 0 THEN 0 ELSE SumUpTo(scores, n - 1) + scores[n]

\* get_summary_stats on a processed frame.  The mean is kept as the exact
\* quotient sum / count and the median as the quotient of the middle
\* value(s); the statistics of an empty column are NaN.  The dict
\* comprehension reads df['jira'] for every priority that occurs, which is
\* a KeyError on a frame without that column.
get_summary_stats(frame) ==
    LET scores == frame.calculated_impact_score
        n == Len(scores)
        sorted == SortSeq(scores, IntLess)
        occurring == {PriorityLevels[k] : k \in 1..Len(PriorityLevels)}
                         \cap {frame.priority_level[i] : i \in 1..n}
        RowsAt(priority) ==
            SelectSeq(Positions(n), LAMBDA i : frame.priority_level[i] = priority)
    IN  IF occurring # {} /\ \A k \in 1..Len(frame.columns) : frame.columns[k] # "jira"
            THEN [op |-> "JiraImpactScoreProcessor.get_summary_stats"]
                     @@ Raises("KeyError: 'jira'")
            ELSE [op |-> "JiraImpactScoreProcessor.get_summary_stats",
                  raised |-> FALSE,
                  stats |->
                      [total_tickets |-> n,
                       average_score |->
                           IF n = 0 THEN NaN
                           ELSE [sum |-> SumUpTo(scores, n), over |-> n],
                       median_score |->
                           IF n = 0 THEN NaN
                           ELSE IF n % 2 = 1
                               THEN [sum |-> sorted[(n + 1) \div 2], over |-> 1]
                               ELSE [sum |-> sorted[n \div 2] + sorted[n \div 2 + 1],
                                     over |-> 2],
                       max_score |-> IF n = 0 THEN NaN ELSE IntCell(sorted[n]),
                       min_score |-> IF n = 0 THEN NaN ELSE IntCell(sorted[1]),
                       priority_distribution |->
                           [priority \in occurring |-> Len(RowsAt(priority))],
                       tickets_by_priority |->
                           [priority \in occurring |->
                               [k \in 1..Len(RowsAt(priority)) |->
                                   RowGet(frame.columns,
                                          frame.rows[RowsAt(priority)[k]], "jira")]]]]

GetSummaryStats ==
    /\ outcome' = IF ~processed_df.loaded
                      THEN [op |-> "JiraImpactScoreProcessor.get_summary_stats"]
                               @@ Raises(NoProcessedData)
                      ELSE get_summary_stats(processed_df)
    /\ UNCHANGED <<components, classified, estimatorVars, labelVars, processorVars>>

key_columns ==
    <<"jira", "last_update", "calculated_impact_score", "priority_level", "person">>

\* export_results up to the call of to_excel: the columns of export_df and
\* its scores, sorted descending (rows with equal scores come in an order
\* sort_values does not fix).
export_results(frame, include_all_columns) ==
    LET all_columns == frame.columns \o <<"calculated_impact_score", "priority_level">>
        Descending(a, b) == a > b
    IN  [columns |->
             IF include_all_columns THEN all_columns
             ELSE SelectSeq(key_columns,
                            LAMBDA col : \E k \in 1..Len(all_columns) :
                                             all_columns[k] = col),
         calculated_impact_score |->
             SortSeq(frame.calculated_impact_score, Descending)]

\* to_excel writes the file or fails on the environment (output_path not
\* writable, openpyxl missing).
ExportResults ==
    /\ IF ~processed_df.loaded
           THEN outcome' = [op |-> "JiraImpactScoreProcessor.export_results"]
                               @@ Raises(NoProcessedData)
           ELSE \E include_all_columns \in BOOLEAN :
                    \/ outcome' = [op |-> "JiraImpactScoreProcessor.export_results",
                                   raised |-> FALSE,
                                   written |-> export_results(processed_df,
                                                              include_all_columns)]
                    \/ outcome' = [op |-> "JiraImpactScoreProcessor.export_results"]
                                      @@ Raises("OSError: cannot write output_path")
    /\ UNCHANGED <<components, classified, estimatorVars, labelVars, processorVars>>

\* nlargest(n, 'calculated_impact_score'): the positions of the n rows with
\* the highest scores, the earlier row first among equal scores.
get_top_priorities(frame, n) ==
    LET scores == frame.calculated_impact_score
        Before(a, b) == scores[a] > scores[b] \/ (scores[a] = scores[b] /\ a < b)
        ranked == SortSeq(Positions(Len(scores)), Before)
    IN  SubSeq(ranked, 1, IF n < Len(ranked) THEN n ELSE Len(ranked))

\* On a frame without rows the score column is built from an empty list;
\* when pandas gives it dtype object, nlargest raises TypeError.
GetTopPriorities ==
    /\ IF ~processed_df.loaded
           THEN outcome' = [op |-> "JiraImpactScoreProcessor.get_top_priorities"]
                               @@ Raises(NoProcessedData)
           ELSE \E n \in {1, 10} :
                    \/ outcome' = [op |-> "JiraImpactScoreProcessor.get_top_priorities",
                                   raised |-> FALSE,
                                   top |-> get_top_priorities(processed_df, n)]
                    \/ /\ processed_df.rows = <<>>
                       /\ outcome' = [op |-> "JiraImpactScoreProcessor.get_top_priorities"]
                                         @@ Raises("TypeError: Column 'calculated_impact_score' has dtype object")
    /\ UNCHANGED <<components, classified, estimatorVars, labelVars, processorVars>>

\* A cell of the sheet as a number of thousandths; NaN and text have none.
CellThousandths(cell) ==
    IF "int" \in DOMAIN cell THEN 1000 * cell.int ELSE cell.float

\* The loop of validate_scores over the rows of the processed frame, for
\* the column impact_score_col: a row with a score and a cell that is not
\* NaN is a discrepancy when the two differ by more than tolerance;
\* subtracting a text cell is a TypeError.
DiscrepanciesIn(frame, impact_score_col, tolerance) ==
    LET at == {k \in 1..Len(frame.columns) : frame.columns[k] = impact_score_col}
        Existing(i) == frame.rows[i][CHOOSE k \in at : TRUE]
        compared == IF at = {} THEN {}
                    ELSE {i \in 1..Len(frame.rows) : "nan" \notin DOMAIN Existing(i)}
        Diff(i) == 100 * frame.calculated_impact_score[i] - CellThousandths(Existing(i))
    IN  IF \E i \in compared : "str" \in DOMAIN Existing(i)
            THEN Raises("TypeError: unsupported operand type(s) for -: 'float' and 'str'")
            ELSE [raised |-> FALSE,
                  result |->
                      LET discrepancies ==
                              SelectSeq(Positions(Len(frame.rows)),
                                        LAMBDA i : /\ i \in compared
                                                   /\ \/ Diff(i) > tolerance
                                                      \/ 0 - Diff(i) > tolerance)
                      IN  <<discrepancies = <<>>,
                            [k \in 1..Len(discrepancies) |->
                                [row |-> discrepancies[k],
                                 Calculated |->
                                     frame.calculated_impact_score[discrepancies[k]],
                                 Original |-> Existing(discrepancies[k])]]>>]

\* validate_scores on a processed frame; columns are those of self.df, in
\* which _find_column looks for the existing scores.
validate_scores(columns, frame, tolerance) ==
    LET impact_score_col == _find_column(columns, "impact_score")
    IN  IF ~Truthy(impact_score_col)
            THEN [raised |-> FALSE,
                  result |-> <<TRUE, <<"No existing impact scores to validate against">> >>]
            ELSE DiscrepanciesIn(frame, impact_score_col[1], tolerance)

\* Variant of ValidateScores without the check of processed_df.
ValidateScores_skips_check ==
    /\ \E tolerance \in {100, 1000} :
           outcome' = [op |-> "JiraImpactScoreProcessor.validate_scores",
                       tolerance |-> tolerance]
                          @@ IF ~processed_df.loaded
                                 THEN [raised |-> FALSE,
                                       result |-> <<TRUE, <<"No existing impact scores to validate against">> >>]
                                 ELSE validate_scores(df.columns, processed_df, tolerance)
    /\ UNCHANGED <<components, classified, estimatorVars, labelVars, processorVars>>

\* validate_scores(tolerance); the outcome keeps the tolerance of the call.
ValidateScores ==
    /\ \E tolerance \in {100, 1000} :
           outcome' = [op |-> "JiraImpactScoreProcessor.validate_scores",
                       tolerance |-> tolerance]
                          @@ IF ~processed_df.loaded
                                 THEN Raises(NoProcessedData)
                                 ELSE validate_scores(df.columns, processed_df, tolerance)
    /\ UNCHANGED <<components, classified, estimatorVars, labelVars, processorVars>>

---------------------------------------------------------------------------
(* A processor and an estimator, each called in any order.                 *)

\* The largest number of tickets in a sheet that carries existing scores.
MaxReportRows == 2

\* The template with a column of existing scores, and a sheet that has only
\* a severity and a column named impact_score.
ScoredLayout == TemplateLayout \o << <<"Impact Score", "impact_score">> >>

BareLayout == << <<"Severity", "impact_severity">>, <<"impact_score", "impact_score">> >>

ReportLayouts == {TemplateLayout, ScoredLayout, BareLayout}

\* Tickets with an existing score: equal to the calculated 100.0, off by 50
\* points, off by 0.05, absent, and one for a row that fails to convert.
ScoredTickets ==
    LET Ticket(id) == CHOOSE ticket \in SheetTickets : ticket.jira = TextCell(id)
    IN  {Ticket("RED-1") @@ [impact_score |-> FloatCell(100000)],
         Ticket("RED-1") @@ [impact_score |-> IntCell(50)],
         Ticket("RED-1") @@ [impact_score |-> FloatCell(100050)],
         Ticket("RED-2") @@ [impact_score |-> NaN],
         Ticket("RED-4") @@ [impact_score |-> FloatCell(61500)]}

ReportWorkbooks ==
    {Sheet(layout, batch) :
         layout \in ReportLayouts,
         batch \in UNION {[1..n -> ScoredTickets] : n \in 0..MaxReportRows}}

ReportExcelFiles ==
    {[readable |-> TRUE, rows |-> rows] :
         rows \in {<<>>} \cup {<<row>> : row \in SlaTickets}}

\* A processor constructed on a workbook next to an estimator without one,
\* or an estimator constructed on a workbook next to such a processor.
InitReporting ==
    /\ components = NotEstimated
    /\ outcome = NoCall
    /\ classified = <<NoClassification, NoClassification>>
    /\ NoLabelCall
    /\ tables = ClassTables
    /\ ticket_df = NoDf
    /\ ticket_data = EmptyDict
    /\ df = NoDf
    /\ processed_df = NoDf
    /\ \/ workbook \in ReportWorkbooks \cup {Unreadable} /\ excel_path = Unreadable
       \/ workbook = Unreadable /\ excel_path \in ReportExcelFiles

NextReporting ==
    \/ ProcessorLoadData
    \/ CalculateScores
    \/ GetSummaryStats
    \/ ExportResults
    \/ GetTopPriorities
    \/ ValidateScores
    \/ LoadData
    \/ ExtractTicketInfo

SpecReporting == InitReporting /\ [][NextReporting]_vars

---------------------------------------------------------------------------
(* Claims about the reporting methods, under SpecReporting.                *)

ValidateScoresReturned ==
    outcome.op = "JiraImpactScoreProcessor.validate_scores" /\ ~outcome.raised

\* The columns of the loaded sheet that hold existing impact scores.
ExistingScoreColumns ==
    {k \in 1..Len(df.columns) : df.columns[k] \in {"Impact Score", "impact_score"}}

\* The rows whose existing score is a number that differs from the
\* calculated score by more than tolerance.
RowsOffBy(tolerance) ==
    {i \in 1..Len(processed_df.rows) :
        \E k \in ExistingScoreColumns :
            LET cell == processed_df.rows[i][k]
                diff == 100 * processed_df.calculated_impact_score[i]
                            - CellThousandths(cell)
            IN  /\ "nan" \notin DOMAIN cell
                /\ diff > tolerance \/ 0 - diff > tolerance}

\* C27: after calculate_scores, when the sheet carries a column of existing
\* impact scores, validate_scores reports every row whose calculated and
\* existing scores differ by more than the tolerance, and the flag it
\* returns is TRUE exactly when there is no such row.
C27_ValidateScoresFindsDiscrepancies ==
    (ValidateScoresReturned /\ ExistingScoreColumns # {}) =>
        /\ outcome.result[1] = (RowsOffBy(outcome.tolerance) = {})
        /\ RowsOffBy(outcome.tolerance) # {} =>
               Len(outcome.result[2]) = Cardinality(RowsOffBy(outcome.tolerance))

\* Whenever validate_scores returns, it returns TRUE and the one message
\* that there are no existing scores.
C27_ValidateScoresOfTheCode ==
    ValidateScoresReturned =>
        outcome.result = <<TRUE, <<"No existing impact scores to validate against">> >>

NoDataLoaded == "ValueError: No data loaded. Call load_data() first."

ReportingCalls ==
    {"JiraImpactScoreProcessor.get_summary_stats",
     "JiraImpactScoreProcessor.export_results",
     "JiraImpactScoreProcessor.get_top_priorities",
     "JiraImpactScoreProcessor.validate_scores"}

\* The call made by the step was rejected with error.
RejectedWith(error) == outcome'.raised /\ outcome'.error = error

\* C28: in every sequence of calls the order load_data, calculate_scores,
\* reporting is enforced.  df is set only by a successful load_data and
\* processed_df only by a successful calculate_scores; calculate_scores
\* called while df is unset raises ValueError; get_summary_stats,
\* export_results, get_top_priorities and validate_scores called while
\* processed_df is unset each raise ValueError; a rejected call leaves df
\* and processed_df as they were.  Likewise extract_ticket_info of the
\* estimator called before its load_data raises ValueError and leaves
\* ticket_data as it was.
C28_CallOrderEnforced ==
    [][ /\ (df'.loaded /\ ~df.loaded) =>
               (outcome'.op = "JiraImpactScoreProcessor.load_data" /\ ~outcome'.raised)
        /\ (processed_df'.loaded /\ ~processed_df.loaded) =>
               (outcome'.op = "JiraImpactScoreProcessor.calculate_scores"
                    /\ ~outcome'.raised)
        /\ (ticket_df'.loaded /\ ~ticket_df.loaded) =>
               (outcome'.op = "load_data" /\ ~outcome'.raised)
        /\ (outcome'.op = "JiraImpactScoreProcessor.calculate_scores" /\ ~df.loaded) =>
               (RejectedWith(NoDataLoaded) /\ UNCHANGED <<df, processed_df>>)
        /\ (outcome'.op \in ReportingCalls /\ ~processed_df.loaded) =>
               (RejectedWith(NoProcessedData) /\ UNCHANGED <<df, processed_df>>)
        /\ (outcome'.op = "extract_ticket_info" /\ ~ticket_df.loaded) =>
               (RejectedWith(NoDataLoaded) /\ UNCHANGED ticket_data)
      ]_vars

\* The sheet was loaded and a reporting method was called and rejected
\* before calculate_scores.
C28_Witness ==
    /\ outcome.op \in ReportingCalls
    /\ outcome.raised
    /\ outcome.error = NoProcessedData
    /\ df.loaded
    /\ Len(df.rows) > 0
    /\ ~processed_df.loaded

---------------------------------------------------------------------------
(* The four implementations of the formula compared, under SpecScoring.    *)

ScoringCalls ==
    {"ImpactScoreCalculator.calculate_impact_score",
     "JiraImpactScoreProcessor._calculate_impact_score",
     "ImpactScoreEstimator.calculate_score",
     "IntelligentImpactEstimator.calculate_impact_score"}

\* The final scores the four implementations return for components c when
\* the product, the same double in all four, has an error of sign fp.
FinalScores(c, fp) ==
    {calculate_impact_score(c, fp).score,
     _calculate_impact_score(c, fp),
     calculate_score(c, fp).score,
     IIE_calculate_impact_score(AsEstimated(c), fp).score}

\* C29: for components that pass validation the four implementations of the
\* formula return the same final score, and ImpactScoreEstimator.calculate_score
\* and IntelligentImpactEstimator.calculate_impact_score the same base_score:
\* whichever of the four returned the score of this state, the other three
\* return it too.
C29_ImplementationsAgree ==
    (outcome.op \in ScoringCalls /\ _validate_components(components) = "ok") =>
        /\ ~outcome.raised
        /\ \A fp \in FloatErrors(components) :
               /\ Cardinality(FinalScores(components, fp)) = 1
               /\ calculate_score(components, fp).base_score
                      = IIE_calculate_impact_score(AsEstimated(components), fp).base_score
        /\ \E fp \in FloatErrors(components) :
               /\ FinalScores(components, fp) = {outcome.score}
               /\ "base_score" \in DOMAIN outcome =>
                      /\ outcome.base_score = calculate_score(components, fp).base_score
                      /\ outcome.base_score
                             = IIE_calculate_impact_score(AsEstimated(components),
                                                          fp).base_score

\* The intelligent estimator scored valid components with both multipliers
\* set, and the score is not the base score.
C29_Witness ==
    /\ outcome.op = "IntelligentImpactEstimator.calculate_impact_score"
    /\ _validate_components(components) = "ok"
    /\ components.support_multiplier > 0
    /\ components.account_multiplier > 0
    /\ outcome.score # 10 * outcome.base_score
    /\ FinalScores(components, 0) = {outcome.score}

---------------------------------------------------------------------------
(* The interactive mode of estimate_impact_score.py: main() runs the six   *)
(* selection prompts and the two multiplier loops, each reading entries    *)
(* from an open terminal until one is accepted.  outcome.at is the loop    *)
(* that reads the next entry, components the values returned so far.       *)

SEVERITY_OPTIONS == << <<"P1", 38>>, <<"P2", 30>>, <<"P3", 22>>, <<"P4", 16>>, <<"P5", 8>> >>

ARR_OPTIONS ==
    << <<"1", 15>>, <<"2", 13>>, <<"3", 10>>, <<"4", 8>>, <<"5", 5>>, <<"6", 0>> >>

SLA_OPTIONS == << <<"Y", 8>>, <<"N", 0>> >>

FREQUENCY_OPTIONS == << <<"1", 0>>, <<"2", 8>>, <<"3", 16>> >>

WORKAROUND_OPTIONS == << <<"1", 5>>, <<"2", 10>>, <<"3", 12>>, <<"4", 15>> >>

RCA_OPTIONS == << <<"Y", 8>>, <<"N", 0>> >>

UpperChar(ch) ==
    IF \E k \in 1..26 : LowerCase[k] = ch
        THEN UpperCase[CHOOSE k \in 1..26 : LowerCase[k] = ch] ELSE ch

\* str.upper()
RECURSIVE Upper(_)
Upper(text) ==
    IF text = "" THEN ""
    ELSE UpperChar(CharAt(text, 1)) \o Upper(SubSeq(text, 2, Len(text)))

\* One pass of a selection loop on the entry as the loop has normalised it:
\* the score of the option when choice is a key of options, None when the
\* loop prints "Invalid choice" and reads again.
Selected(options, choice) ==
    IF HasKey(options, choice) THEN Some(Lookup(options, choice)) ELSE None

\* float(text): nan and the infinities are floats too.
FloatOfEntry(text) ==
    IF Lower(Unsigned(text)) = "nan" THEN [raised |-> FALSE, special |-> "nan"]
    ELSE IF Lower(Unsigned(text)) \in {"inf", "infinity"}
        THEN [raised |-> FALSE, special |-> "inf"]
    ELSE PyFloat(TextCell(text))

\* Variant of the multiplier loop without the lower bound of the range.
MultiplierEntered_no_lower_bound(entry) ==
    LET text == Strip(entry)
        parsed == FloatOfEntry(text)
    IN  IF text = "" THEN Some(0)
        ELSE IF parsed.raised \/ "special" \in DOMAIN parsed THEN None
        ELSE IF parsed.value <= 15000 THEN Some(parsed.value \div 100)
        ELSE None

\* One pass of a multiplier loop: 0.0 for an empty entry; float(entry) / 100
\* when that lies in [0, 0.15] (the percentage is held in thousandths and
\* the multiplier returned in permille; the entries considered have at most
\* one fraction digit); None when the loop reads again, after a ValueError
\* or a value out of range (every comparison with nan is false).
MultiplierEntered(entry) ==
    LET text == Strip(entry)
        parsed == FloatOfEntry(text)
    IN  IF text = "" THEN Some(0)
        ELSE IF parsed.raised \/ "special" \in DOMAIN parsed THEN None
        ELSE IF 0 <= parsed.value /\ parsed.value <= 15000
            THEN Some(parsed.value \div 100)
        ELSE None

\* What is typed at a selection prompt and at a multiplier prompt.
SelectionEntries ==
    {"", "p1", " P2", "P3", "P4", "P5", "P6", "1", "2", "3", "4", "5", "6", "7",
     "y", "N", " n ", "yes"}

MultiplierEntries ==
    {"", "0", " 15 ", "7.5", "15.01", "-0.1", "-0", "16", "abc", "nan"}

\* The number of rejected entries followed in one session.
MaxInvalidEntries == 2

At == IF "at" \in DOMAIN outcome THEN outcome.at ELSE "returned"

\* The state of main() after entry was read by the loop it is in: the loop
\* returned value (Some) and main goes on to next, or the loop reads again.
Answered(entry, value, key, next) ==
    IF value = None
        THEN /\ outcome.invalid < MaxInvalidEntries
             /\ components' = components
             /\ outcome' = [outcome EXCEPT !.entry = entry, !.invalid = @ + 1]
        ELSE /\ components' = components @@ (key :> value[1])
             /\ outcome' = [outcome EXCEPT !.at = next, !.entry = entry]

PromptSeverity ==
    /\ At = "prompt_severity"
    /\ \E entry \in SelectionEntries :
           Answered(entry, Selected(SEVERITY_OPTIONS, Upper(Strip(entry))),
                    "impact_severity", "prompt_arr")
    /\ UNCHANGED <<classified, estimatorVars, labelVars, processorVars>>

PromptArr ==
    /\ At = "prompt_arr"
    /\ \E entry \in SelectionEntries :
           Answered(entry, Selected(ARR_OPTIONS, Strip(entry)),
                    "customer_arr", "prompt_sla")
    /\ UNCHANGED <<classified, estimatorVars, labelVars, processorVars>>

PromptSla ==
    /\ At = "prompt_sla"
    /\ \E entry \in SelectionEntries :
           Answered(entry, Selected(SLA_OPTIONS, Upper(Strip(entry))),
                    "sla_breach", "prompt_frequency")
    /\ UNCHANGED <<classified, estimatorVars, labelVars, processorVars>>

PromptFrequency ==
    /\ At = "prompt_frequency"
    /\ \E entry \in SelectionEntries :
           Answered(entry, Selected(FREQUENCY_OPTIONS, Strip(entry)),
                    "frequency", "prompt_workaround")
    /\ UNCHANGED <<classified, estimatorVars, labelVars, processorVars>>

PromptWorkaround ==
    /\ At = "prompt_workaround"
    /\ \E entry \in SelectionEntries :
           Answered(entry, Selected(WORKAROUND_OPTIONS, Strip(entry)),
                    "workaround", "prompt_rca")
    /\ UNCHANGED <<classified, estimatorVars, labelVars, processorVars>>

PromptRca ==
    /\ At = "prompt_rca"
    /\ \E entry \in SelectionEntries :
           Answered(entry, Selected(RCA_OPTIONS, Upper(Strip(entry))),
                    "rca_action_item", "prompt_multipliers support")
    /\ UNCHANGED <<classified, estimatorVars, labelVars, processorVars>>

\* The first loop of prompt_multipliers; main stores both multipliers once
\* prompt_multipliers has returned, which changes nothing in between.
PromptSupportMultiplier ==
    /\ At = "prompt_multipliers support"
    /\ \E entry \in MultiplierEntries :
           Answered(entry, MultiplierEntered(entry),
                    "support_multiplier", "prompt_multipliers account")
    /\ UNCHANGED <<classified, estimatorVars, labelVars, processorVars>>

PromptAccountMultiplier ==
    /\ At = "prompt_multipliers account"
    /\ \E entry \in MultiplierEntries :
           Answered(entry, MultiplierEntered(entry),
                    "account_multiplier", "calculate_score")
    /\ UNCHANGED <<classified, estimatorVars, labelVars, processorVars>>

\* main() calls calculate_score on the components assembled from the prompts.
MainCalculateScore ==
    /\ At = "calculate_score"
    /\ EstimatorCalculateScore

\* main() run with --interactive, before the first prompt.
InitInteractive ==
    /\ components = EmptyDict
    /\ outcome = [op |-> "main", at |-> "prompt_severity", entry |-> "", invalid |-> 0]
    /\ classified = <<NoClassification, NoClassification>>
    /\ NoLabelCall
    /\ ProcessorConstructed
    /\ EstimatorConstructed

NextInteractive ==
    \/ PromptSeverity
    \/ PromptArr
    \/ PromptSla
    \/ PromptFrequency
    \/ PromptWorkaround
    \/ PromptRca
    \/ PromptSupportMultiplier
    \/ PromptAccountMultiplier
    \/ MainCalculateScore

SpecInteractive == InitInteractive /\ [][NextInteractive]_vars

---------------------------------------------------------------------------
(* Claim about the interactive mode, under SpecInteractive.                *)

\* The values of the option tables, and the multipliers of [0, 0.15] in
\* permille.
OptionValues ==
    [impact_severity |-> {38, 30, 22, 16, 8},
     customer_arr |-> {15, 13, 10, 8, 5, 0},
     sla_breach |-> {0, 8},
     frequency |-> {0, 8, 16},
     workaround |-> {5, 10, 12, 15},
     rca_action_item |-> {0, 8},
     support_multiplier |-> 0..150,
     account_multiplier |-> 0..150]

\* The entries of the model that name an option of each loop, or a
\* percentage between 0 and 15.
ValidEntries ==
    [prompt_severity |-> {"p1", " P2", "P3", "P4", "P5"},
     prompt_arr |-> {"1", "2", "3", "4", "5", "6"},
     prompt_sla |-> {"y", "N", " n "},
     prompt_frequency |-> {"1", "2", "3"},
     prompt_workaround |-> {"1", "2", "3", "4"},
     prompt_rca |-> {"y", "N", " n "}]
        @@ ("prompt_multipliers support" :> {"", "0", " 15 ", "7.5", "-0"})
        @@ ("prompt_multipliers account" :> {"", "0", " 15 ", "7.5", "-0"})

\* C30: in interactive mode every prompt loop reads again after an invalid
\* entry and is left only on a valid one; every value it returns is a value
\* of its option table (severity 38, 30, 22, 16 or 8, ARR 15, 13, 10, 8, 5
\* or 0, SLA and RCA 0 or 8, frequency 0, 8 or 16, workaround 5, 10, 12 or
\* 15) or a multiplier in [0, 0.15]; so the components assembled from the
\* prompts pass the validation of the components' bounds, after any
\* sequence of valid and invalid entries.
C30_PromptsReturnOnlyOptions ==
    [][ /\ \A key \in DOMAIN components' : components'[key] \in OptionValues[key]
        /\ At \in DOMAIN ValidEntries =>
               IF outcome'.entry \in ValidEntries[At]
                   THEN /\ outcome'.at # At
                        /\ Cardinality(DOMAIN components')
                               = Cardinality(DOMAIN components) + 1
                   ELSE /\ outcome'.at = At
                        /\ components' = components
                        /\ outcome'.invalid = outcome.invalid + 1
        /\ DOMAIN components' = DOMAIN OptionValues =>
               _validate_components(components') = "ok"
      ]_vars

\* A session in which entries were rejected and that ended with the highest
\* severity and both multipliers at 15 percent.
C30_Witness ==
    /\ At = "calculate_score"
    /\ outcome.invalid > 0
    /\ components.impact_severity = 38
    /\ components.support_multiplier = 150
    /\ components.account_multiplier = 150
    /\ _validate_components(components) = "ok"

=============================================================================
